---- MODULE Spec2Model ----
(***************************************************************************)
(* NairobiFlow traffic management: the TrafficDataService (cache-aside     *)
(* around the TomTom API and the incident table), the TrafficData          *)
(* congestion-level hook, the API-key middleware, the ApiKey model and the *)
(* Joi validation middleware.                                              *)
(*                                                                         *)
(* Each service method is one action: the method is taken from its first   *)
(* line to its return or throw, with the outcome of the TomTom request and *)
(* of the database calls drawn from the environment.  Time is not counted: *)
(* the expiry of a cache entry after stdTTL seconds is the action Expire.  *)
(***************************************************************************)
EXTENDS Integers, Sequences, FiniteSets, TLC

VARIABLES
    cache,          \* NodeCache of the service: key -> value or Undefined
    apiKeyTomtom,   \* this.apiKeys.tomtom is configured
    tomtomUp,       \* the TomTom API answers requests
    dbUp,           \* the database answers queries
    trafficRows,    \* table traffic_data: rows written by storeTrafficData
    incidentRows,   \* table traffic_incidents: id -> "absent" | status
    lastCall,       \* the step taken last: operation, key, outcome, events
    lastGood,       \* history: per live-traffic key, the data fetched last
    record,         \* the TrafficData instance created last, after beforeCreate
    validApiKeys,   \* process.env.VALID_API_KEYS ("" when unset)
    req,            \* the request a middleware handled last, as it left it
    res,            \* the response to that request
    nextCalls,      \* how often the middleware called next() for it
    apiKey,         \* an ApiKey instance
    now,            \* the clock the ApiKey instance lives by
    subscription,   \* a WarningSubscription instance
    clock,          \* the browser's clock, in minutes
    alerts,         \* WarningSystem.alerts
    alertList,      \* what the element alert-list of the warning panel shows
    counts,         \* the texts of critical-count, high-count, medium-count, low-count
    running,        \* the processWarnings call waiting at its await, if any
    dataAge,        \* window.trafficManager.statistics.dataAge
    historicalData, \* PredictiveWarningSystem.historicalData
    predictions,    \* PredictiveWarningSystem.predictions
    startPoint,     \* value of the input start-point
    endPoint,       \* value of the input end-point
    markers,        \* NairobiTrafficMap.markers: start and end
    routeLine,      \* NairobiTrafficMap.routeLine
    roads,          \* how bad the traffic the server reports is: a stage of RoadStages
    page            \* the loading indicator, the notifications and popup shown, the requests sent

vars == <<cache, apiKeyTomtom, tomtomUp, dbUp, trafficRows, incidentRows, lastCall,
          lastGood, record, validApiKeys, req, res, nextCalls, apiKey, now, subscription,
          clock, alerts, alertList, counts, running, dataAge,
          historicalData, predictions, startPoint, endPoint, markers, routeLine,
          roads, page>>

\* the state of one component; a step of another component leaves it alone
serviceVars == <<cache, apiKeyTomtom, tomtomUp, dbUp, trafficRows, incidentRows, lastGood>>
recordVars == <<record>>
middlewareVars == <<validApiKeys, req, res, nextCalls>>
apiKeyVars == <<apiKey, now, subscription>>
warningVars == <<alerts, alertList, counts, running, dataAge>>
predictiveVars == <<historicalData, predictions, roads>>
routeVars == <<startPoint, endPoint, markers, routeLine, page>>
browserVars == <<clock, warningVars, predictiveVars, routeVars>>
nonServiceVars == <<recordVars, middlewareVars, apiKeyVars, browserVars>>

(***************************************************************************)
(* Values                                                                  *)
(***************************************************************************)
Undefined == [kind |-> "undefined"]

\* JavaScript truthiness of the values a cache entry can hold: objects and
\* arrays (also the empty array) are truthy, undefined is not.
Truthy(v) == v.kind # "undefined"

BoolStr(b) == IF b THEN "true" ELSE "false"

\* route requests: start, end, alternatives
RouteArgs == { <<"-1.2,36.8", "-1.3,36.9", FALSE>>,
               <<"-1.2,36.8", "-1.3,36.9", TRUE>>,
               <<"-1.25,36.85", "-1.3,36.9", FALSE>> }

\* bodies TomTom answers a route request with
RouteResponses == { [kind |-> "route", routes |-> "A"],
                    [kind |-> "route", routes |-> "B"] }

\* errors of a failed TomTom request
TomTomErrors == { "Network Error", "Request failed with status code 503" }

\* bounds arguments of getLiveTrafficData; "null" is the default argument
NullBounds == "null"
BoundsArgs == { NullBounds, "-1.30,36.80,-1.20,36.90" }

\* bodies TomTom answers a flow request with: flowSegmentData or none
NoFlowSegmentData == [kind |-> "empty"]
FlowResponses == { NoFlowSegmentData,
                   [kind |-> "flow", flowSegmentData |->
                       << [currentSpeed |-> 9, freeFlowSpeed |-> 10],
                          [currentSpeed |-> 2, freeFlowSpeed |-> 10] >>] }

\* incidents reported by users (row ids) and known to TomTom
UserIncidentIds == { "u1", "u2" }
TomTomIncidentIds == { "t1" }
IncidentIds == UserIncidentIds \cup TomTomIncidentIds
IncidentResponses == { {}, {"t1"} }

\* descriptions of a reported incident; the model validates len [10, 1000]
Descriptions == { "pothole", "two cars collided" }

(***************************************************************************)
(* Cache keys                                                              *)
(***************************************************************************)
RouteKey(start, end, alternatives) ==
    "route-" \o start \o "-" \o end \o "-" \o BoolStr(alternatives)

LiveKey(bounds) ==
    "live-traffic-" \o (IF bounds = NullBounds THEN "nairobi" ELSE bounds)

IncidentsKey == "traffic-incidents"

RouteKeys == { RouteKey(a[1], a[2], a[3]) : a \in RouteArgs }
LiveKeys == { LiveKey(b) : b \in BoundsArgs }
CacheKeys == RouteKeys \cup LiveKeys \cup {IncidentsKey}

(***************************************************************************)
(* Congestion level                                                        *)
(***************************************************************************)
\* currentSpeed / freeFlowSpeed compared with 0.8, 0.5, 0.3.  Division by
\* zero gives Infinity (> 0.8) for a positive current speed and NaN, which
\* fails every comparison, for 0 / 0.
calculateTrafficLevel(currentSpeed, freeFlowSpeed) ==
    IF freeFlowSpeed = 0
    THEN IF currentSpeed > 0 THEN "low" ELSE "severe"
    ELSE IF 10 * currentSpeed > 8 * freeFlowSpeed THEN "low"
    ELSE IF 10 * currentSpeed > 5 * freeFlowSpeed THEN "medium"
    ELSE IF 10 * currentSpeed > 3 * freeFlowSpeed THEN "high"
    ELSE "severe"

(***************************************************************************)
(* TomTom client                                                           *)
(***************************************************************************)
\* The outcome of one fetchTomTom* call: without an API key it throws before
\* any request is made; otherwise the request is made and succeeds with
\* data or fails with err.
fetchTomTom(data, err) ==
    IF ~apiKeyTomtom
    THEN [ok |-> FALSE, requested |-> FALSE, data |-> Undefined,
          error |-> "TomTom API key not configured"]
    ELSE IF ~tomtomUp
    THEN [ok |-> FALSE, requested |-> TRUE, data |-> Undefined, error |-> err]
    ELSE [ok |-> TRUE, requested |-> TRUE, data |-> data, error |-> ""]

fetchTomTomRoute(resp, err) == fetchTomTom(resp, err)

processTomTomTrafficData(data) ==
    IF data.kind # "flow"
    THEN [kind |-> "array", items |-> {}]
    ELSE [kind |-> "traffic", source |-> "tomtom",
          segments |-> [i \in 1..Len(data.flowSegmentData) |->
              LET segment == data.flowSegmentData[i]
              IN [currentSpeed |-> segment.currentSpeed,
                  freeFlowSpeed |-> segment.freeFlowSpeed,
                  trafficLevel |-> calculateTrafficLevel(segment.currentSpeed,
                                                         segment.freeFlowSpeed)]]]

fetchTomTomTraffic(flow, err) == fetchTomTom(processTomTomTrafficData(flow), err)

fetchTomTomIncidents(ids, err) ==
    fetchTomTom([kind |-> "array", items |-> ids], err)

getFallbackTrafficData ==
    [kind |-> "traffic", source |-> "fallback", segments |-> <<>>]

ReqEvents(f) == IF f.requested THEN <<"tomtom.request">> ELSE <<>>

\* no fetchTomTom* call was made
NoFetch == [ok |-> FALSE, requested |-> FALSE, data |-> Undefined, error |-> ""]

\* the record of one step: what was called, the cache key it used, whether it
\* returned or threw and what, the outcome of its TomTom call, and the calls
\* it made in order
Call(op, key, outcome, value, fetch, events) ==
    [op |-> op, key |-> key, outcome |-> outcome, value |-> value, fetch |-> fetch,
     events |-> events]

Has(events, e) == \E i \in DOMAIN events : events[i] = e

(***************************************************************************)
(* getRouteInfo                                                            *)
(***************************************************************************)
\* getRouteInfo without the early return on a cache hit
getRouteInfoResult_NoHit(c, cacheKey, f) ==
    IF f.ok
    THEN [cache |-> [c EXCEPT ![cacheKey] = f.data],
          call |-> Call("getRouteInfo", cacheKey, "return", f.data, f,
                     <<"cache.get">> \o ReqEvents(f) \o <<"cache.set", "log.api.ok">>)]
    ELSE [cache |-> c,
          call |-> Call("getRouteInfo", cacheKey, "throw",
                     [kind |-> "error", message |-> f.error], f,
                     <<"cache.get">> \o ReqEvents(f) \o <<"log.api.fail", "log.error">>)]

\* getRouteInfo without the cache.set after a successful fetch
getRouteInfoResult_NoSet(c, cacheKey, f) ==
    IF Truthy(c[cacheKey])
    THEN [cache |-> c,
          call |-> Call("getRouteInfo", cacheKey, "return", c[cacheKey], NoFetch,
                        <<"cache.get", "log.cache.hit">>)]
    ELSE IF f.ok
    THEN [cache |-> c,
          call |-> Call("getRouteInfo", cacheKey, "return", f.data, f,
                     <<"cache.get">> \o ReqEvents(f) \o <<"log.api.ok">>)]
    ELSE [cache |-> c,
          call |-> Call("getRouteInfo", cacheKey, "throw",
                     [kind |-> "error", message |-> f.error], f,
                     <<"cache.get">> \o ReqEvents(f) \o <<"log.api.fail", "log.error">>)]

\* getRouteInfo answering a failed fetch with an empty route, as
\* getLiveTrafficData does, instead of rethrowing
getRouteInfoResult_Swallow(c, cacheKey, f) ==
    IF Truthy(c[cacheKey])
    THEN [cache |-> c,
          call |-> Call("getRouteInfo", cacheKey, "return", c[cacheKey], NoFetch,
                        <<"cache.get", "log.cache.hit">>)]
    ELSE IF f.ok
    THEN [cache |-> [c EXCEPT ![cacheKey] = f.data],
          call |-> Call("getRouteInfo", cacheKey, "return", f.data, f,
                     <<"cache.get">> \o ReqEvents(f) \o <<"cache.set", "log.api.ok">>)]
    ELSE [cache |-> c,
          call |-> Call("getRouteInfo", cacheKey, "return",
                     [kind |-> "route", routes |-> "none"], f,
                     <<"cache.get">> \o ReqEvents(f) \o <<"log.api.fail", "log.error">>)]

\* what one getRouteInfo call does to the cache and what it answers
getRouteInfoResult(c, cacheKey, f) ==
    IF Truthy(c[cacheKey])
    THEN [cache |-> c,
          call |-> Call("getRouteInfo", cacheKey, "return", c[cacheKey], NoFetch,
                        <<"cache.get", "log.cache.hit">>)]
    ELSE IF f.ok
    THEN [cache |-> [c EXCEPT ![cacheKey] = f.data],
          call |-> Call("getRouteInfo", cacheKey, "return", f.data, f,
                     <<"cache.get">> \o ReqEvents(f) \o <<"cache.set", "log.api.ok">>)]
    ELSE [cache |-> c,
          call |-> Call("getRouteInfo", cacheKey, "throw",
                     [kind |-> "error", message |-> f.error], f,
                     <<"cache.get">> \o ReqEvents(f) \o <<"log.api.fail", "log.error">>)]

getRouteInfo(start, end, alternatives) ==
    \E resp \in RouteResponses, err \in TomTomErrors :
        LET r == getRouteInfoResult(cache, RouteKey(start, end, alternatives),
                                    fetchTomTomRoute(resp, err))
        IN /\ cache' = r.cache
           /\ lastCall' = r.call
           /\ UNCHANGED <<apiKeyTomtom, tomtomUp, dbUp, trafficRows, incidentRows, lastGood, nonServiceVars>>

(***************************************************************************)
(* getLiveTrafficData                                                      *)
(***************************************************************************)
\* rows bulkCreate inserts for the fetched segments; nothing for data
\* without a segments array, and nothing when the insert fails (the error
\* is logged and swallowed)
storeTrafficData(rows, trafficData, insertOk) ==
    IF trafficData.kind # "traffic" THEN rows
    ELSE IF ~(dbUp /\ insertOk) THEN rows
    ELSE rows \cup { [current_speed |-> trafficData.segments[i].currentSpeed,
                      free_flow_speed |-> trafficData.segments[i].freeFlowSpeed,
                      congestion_level |-> trafficData.segments[i].trafficLevel,
                      data_source |-> "tomtom"] :
                     i \in 1..Len(trafficData.segments) }

LiveCall(key, value, fetch, events) ==
    Call("getLiveTrafficData", key, "return", value, fetch, events)

\* getLiveTrafficData putting the fallback object into the cache
getLiveTrafficDataResult_CacheFallback(c, rows, cacheKey, f, insertOk) ==
    IF Truthy(c[cacheKey])
    THEN [cache |-> c, rows |-> rows,
          call |-> LiveCall(cacheKey, c[cacheKey], NoFetch,
                           <<"cache.get", "log.cache.hit">>)]
    ELSE IF f.ok
    THEN [cache |-> [c EXCEPT ![cacheKey] = f.data],
          rows |-> storeTrafficData(rows, f.data, insertOk),
          call |-> LiveCall(cacheKey, f.data, f,
                     <<"cache.get">> \o ReqEvents(f)
                        \o <<"cache.set", "log.api.ok", "storeTrafficData">>)]
    ELSE [cache |-> [c EXCEPT ![cacheKey] = getFallbackTrafficData], rows |-> rows,
          call |-> LiveCall(cacheKey, getFallbackTrafficData, f,
                     <<"cache.get">> \o ReqEvents(f) \o <<"log.api.fail", "log.error">>)]

getLiveTrafficDataResult(c, rows, cacheKey, f, insertOk) ==
    IF Truthy(c[cacheKey])
    THEN [cache |-> c, rows |-> rows,
          call |-> LiveCall(cacheKey, c[cacheKey], NoFetch,
                           <<"cache.get", "log.cache.hit">>)]
    ELSE IF f.ok
    THEN [cache |-> [c EXCEPT ![cacheKey] = f.data],
          rows |-> storeTrafficData(rows, f.data, insertOk),
          call |-> LiveCall(cacheKey, f.data, f,
                     <<"cache.get">> \o ReqEvents(f)
                        \o <<"cache.set", "log.api.ok", "storeTrafficData">>)]
    ELSE [cache |-> c, rows |-> rows,
          call |-> LiveCall(cacheKey, getFallbackTrafficData, f,
                     <<"cache.get">> \o ReqEvents(f) \o <<"log.api.fail", "log.error">>)]

getLiveTrafficData(bounds) ==
    \E flow \in FlowResponses, err \in TomTomErrors, insertOk \in BOOLEAN :
        LET r == getLiveTrafficDataResult(cache, trafficRows, LiveKey(bounds),
                                          fetchTomTomTraffic(flow, err), insertOk)
        IN /\ cache' = r.cache
           /\ trafficRows' = r.rows
           /\ lastCall' = r.call
           /\ lastGood' = IF r.call.fetch.ok
                          THEN [lastGood EXCEPT ![LiveKey(bounds)] = r.call.fetch.data]
                          ELSE lastGood
           /\ UNCHANGED <<apiKeyTomtom, tomtomUp, dbUp, incidentRows, nonServiceVars>>

(***************************************************************************)
(* getTrafficIncidents, reportIncident, resolve                            *)
(***************************************************************************)
\* TrafficIncident.findActive: the rows with status active
findActive(rows) == { id \in IncidentIds : rows[id] = "active" }

IncidentList(ids) == [kind |-> "array", items |-> ids]

\* rows bulkCreate inserts, with status active, for the fetched incidents;
\* nothing when the insert fails (the error is logged and swallowed)
storeIncidentData(rows, incidents, insertOk) ==
    IF incidents.kind # "array" THEN rows
    ELSE IF ~(dbUp /\ insertOk) THEN rows
    ELSE [id \in IncidentIds |-> IF id \in incidents.items THEN "active" ELSE rows[id]]

IncidentsCall(value, fetch, events) ==
    Call("getTrafficIncidents", IncidentsKey, "return", value, fetch, events)

\* the catch block: the database's active incidents, or [] when it fails too
IncidentsFallback(rows, fetch, events) ==
    IF dbUp
    THEN IncidentsCall(IncidentList(findActive(rows)), fetch,
                       events \o <<"log.api.fail", "log.error", "db.findActive">>)
    ELSE IncidentsCall(IncidentList({}), fetch,
                       events \o <<"log.api.fail", "log.error", "db.findActive",
                                   "log.error">>)

\* getTrafficIncidents asking TomTom without looking at what the database
\* returned
getTrafficIncidentsResult_ApiFirst(c, rows, f, insertOk) ==
    IF Truthy(c[IncidentsKey])
    THEN [cache |-> c, rows |-> rows,
          call |-> IncidentsCall(c[IncidentsKey], NoFetch,
                                 <<"cache.get", "log.cache.hit">>)]
    ELSE IF ~dbUp
    THEN [cache |-> c, rows |-> rows,
          call |-> IncidentsFallback(rows, NoFetch, <<"cache.get", "db.findActive">>)]
    ELSE IF f.ok
    THEN [cache |-> [c EXCEPT ![IncidentsKey] = f.data],
          rows |-> storeIncidentData(rows, f.data, insertOk),
          call |-> IncidentsCall(f.data, f,
                     <<"cache.get", "db.findActive">> \o ReqEvents(f)
                        \o <<"storeIncidentData", "cache.set", "log.api.ok">>)]
    ELSE [cache |-> c, rows |-> rows,
          call |-> IncidentsFallback(rows, f,
                     <<"cache.get", "db.findActive">> \o ReqEvents(f))]

getTrafficIncidentsResult(c, rows, f, insertOk) ==
    IF Truthy(c[IncidentsKey])
    THEN [cache |-> c, rows |-> rows,
          call |-> IncidentsCall(c[IncidentsKey], NoFetch,
                                 <<"cache.get", "log.cache.hit">>)]
    ELSE IF ~dbUp
    THEN [cache |-> c, rows |-> rows,
          call |-> IncidentsFallback(rows, NoFetch, <<"cache.get", "db.findActive">>)]
    ELSE IF findActive(rows) # {}
    THEN [cache |-> [c EXCEPT ![IncidentsKey] = IncidentList(findActive(rows))],
          rows |-> rows,
          call |-> IncidentsCall(IncidentList(findActive(rows)), NoFetch,
                                 <<"cache.get", "db.findActive", "cache.set">>)]
    ELSE IF f.ok
    THEN [cache |-> [c EXCEPT ![IncidentsKey] = f.data],
          rows |-> storeIncidentData(rows, f.data, insertOk),
          call |-> IncidentsCall(f.data, f,
                     <<"cache.get", "db.findActive">> \o ReqEvents(f)
                        \o <<"storeIncidentData", "cache.set", "log.api.ok">>)]
    ELSE [cache |-> c, rows |-> rows,
          call |-> IncidentsFallback(rows, f,
                     <<"cache.get", "db.findActive">> \o ReqEvents(f))]

getTrafficIncidents ==
    \E ids \in IncidentResponses, err \in TomTomErrors, insertOk \in BOOLEAN :
        LET r == getTrafficIncidentsResult(cache, incidentRows,
                                           fetchTomTomIncidents(ids, err), insertOk)
        IN /\ cache' = r.cache
           /\ incidentRows' = r.rows
           /\ lastCall' = r.call
           /\ UNCHANGED <<apiKeyTomtom, tomtomUp, dbUp, trafficRows, lastGood, nonServiceVars>>

\* TrafficIncident.create with a fresh uuid; status defaults to active.  The
\* model validates the description's length; a failure is logged and rethrown.
reportIncidentResult(rows, id, description) ==
    IF dbUp /\ Len(description) >= 10
    THEN [rows |-> [rows EXCEPT ![id] = "active"],
          call |-> Call("reportIncident", id, "return",
                        [kind |-> "incident", id |-> id, status |-> "active"],
                        NoFetch, <<"db.create", "log.incident">>)]
    ELSE [rows |-> rows,
          call |-> Call("reportIncident", id, "throw",
                        [kind |-> "error", message |-> "create failed"],
                        NoFetch, <<"db.create", "log.error">>)]

reportIncident ==
    \E id \in UserIncidentIds, description \in Descriptions :
        /\ incidentRows[id] = "absent"
        /\ LET r == reportIncidentResult(incidentRows, id, description)
           IN /\ incidentRows' = r.rows
              /\ lastCall' = r.call
        /\ UNCHANGED <<cache, apiKeyTomtom, tomtomUp, dbUp, trafficRows, lastGood, nonServiceVars>>

\* TrafficIncident.prototype.resolve on an active row
resolve ==
    \E id \in IncidentIds :
        /\ incidentRows[id] = "active"
        /\ incidentRows' = IF dbUp THEN [incidentRows EXCEPT ![id] = "resolved"]
                                  ELSE incidentRows
        /\ lastCall' = Call("resolve", id, IF dbUp THEN "return" ELSE "throw",
                            Undefined, NoFetch, <<"db.save">>)
        /\ UNCHANGED <<cache, apiKeyTomtom, tomtomUp, dbUp, trafficRows, lastGood, nonServiceVars>>

(***************************************************************************)
(* Environment of the service                                              *)
(***************************************************************************)
EnvCall(op, key) == Call(op, key, "return", Undefined, NoFetch, <<>>)

\* a cache entry reaches its TTL (stdTTL, 300 s unless CACHE_TTL is set)
Expire ==
    \E key \in CacheKeys :
        /\ Truthy(cache[key])
        /\ cache' = [cache EXCEPT ![key] = Undefined]
        /\ lastCall' = EnvCall("expire", key)
        /\ UNCHANGED <<apiKeyTomtom, tomtomUp, dbUp, trafficRows, incidentRows, lastGood, nonServiceVars>>

\* the TomTom API goes down or comes back
TomTomOutage ==
    /\ tomtomUp' = ~tomtomUp
    /\ lastCall' = EnvCall("tomtom", "")
    /\ UNCHANGED <<cache, apiKeyTomtom, dbUp, trafficRows, incidentRows, lastGood, nonServiceVars>>

\* the database goes down or comes back
DatabaseOutage ==
    /\ dbUp' = ~dbUp
    /\ lastCall' = EnvCall("database", "")
    /\ UNCHANGED <<cache, apiKeyTomtom, tomtomUp, trafficRows, incidentRows, lastGood, nonServiceVars>>

(***************************************************************************)
(* TrafficData.beforeCreate                                                *)
(***************************************************************************)
\* an attribute that was not given, and one that was
None == <<>>
Some(v) == <<v>>

Levels == {"low", "medium", "high", "severe"}

MaxSpeed == 10
SpeedInputs == {None} \cup { Some(v) : v \in 0..MaxSpeed }
LevelInputs == {None} \cup { Some(l) : l \in Levels }

\* a number attribute as a JavaScript condition: undefined and 0 are falsy
TruthyNumber(o) == o # None /\ o[1] # 0

\* the hook: the level is computed only when none was given and both speeds
\* are truthy
beforeCreate(trafficData) ==
    IF /\ trafficData.congestion_level = None
       /\ TruthyNumber(trafficData.current_speed)
       /\ TruthyNumber(trafficData.free_flow_speed)
    THEN LET cur == trafficData.current_speed[1]
             free == trafficData.free_flow_speed[1]
         IN [trafficData EXCEPT !.congestion_level =
                IF 10 * cur > 8 * free THEN Some("low")
                ELSE IF 10 * cur > 5 * free THEN Some("medium")
                ELSE IF 10 * cur > 3 * free THEN Some("high")
                ELSE Some("severe")]
    ELSE trafficData

\* TrafficData.create: the instance as given and as the hook leaves it
TrafficDataCreate ==
    \E cur \in SpeedInputs, free \in SpeedInputs, level \in LevelInputs :
        LET given == [current_speed |-> cur, free_flow_speed |-> free,
                      congestion_level |-> level]
        IN /\ record' = [given |-> given, created |-> beforeCreate(given)]
           /\ UNCHANGED <<serviceVars, lastCall, middlewareVars, apiKeyVars, browserVars>>

(***************************************************************************)
(* Strings                                                                 *)
(***************************************************************************)
Ch(str, i) == SubSeq(str, i, i)

StartsWith(str, prefix) ==
    Len(prefix) <= Len(str) /\ SubSeq(str, 1, Len(prefix)) = prefix

HasChar(str, ch) == \E i \in 1..Len(str) : Ch(str, i) = ch

IndexOf(str, ch) == CHOOSE i \in 1..Len(str) :
                        Ch(str, i) = ch /\ \A j \in 1..(i - 1) : Ch(str, j) # ch

\* String.prototype.split(',')
RECURSIVE SplitComma(_)
SplitComma(str) ==
    IF ~HasChar(str, ",") THEN <<str>>
    ELSE LET i == IndexOf(str, ",")
         IN <<SubSeq(str, 1, i - 1)>> \o SplitComma(SubSeq(str, i + 1, Len(str)))

\* String.prototype.trim, for blanks
RECURSIVE Trim(_)
Trim(str) ==
    IF Len(str) > 0 /\ Ch(str, 1) = " " THEN Trim(SubSeq(str, 2, Len(str)))
    ELSE IF Len(str) > 0 /\ Ch(str, Len(str)) = " " THEN Trim(SubSeq(str, 1, Len(str) - 1))
    ELSE str

(***************************************************************************)
(* SecurityMiddleware.validateApiKey                                       *)
(***************************************************************************)
publicEndpoints == << "/api/health", "/api/nairobi/boundaries", "/api/nairobi/landmarks",
                      "/api/nairobi/roads", "/api/nairobi/hotspots", "/" >>

\* req.path of the requests: full paths and, where the middleware is mounted
\* under /api/traffic, the path below the mount point
Paths == { "/", "/api/health", "/api/nairobi/roads", "/api/analytics/traffic",
           "/api/traffic/live", "/live" }

\* x-api-key header and apiKey query parameter: absent, or a string
HeaderKeys == { None, Some(""), Some("k1"), Some("stolen") }
QueryKeys == { None, Some("k2"), Some("guess") }

\* settings of VALID_API_KEYS; "" stands for unset
ValidApiKeysSettings == { "", "k1, k2" }

\* the list the middleware checks a key against
ParseValidApiKeys(setting) ==
    IF setting = "" THEN <<>>
    ELSE LET parts == SplitComma(setting)
         IN [i \in 1..Len(parts) |-> Trim(parts[i])]

Includes(list, x) == \E i \in DOMAIN list : list[i] = x

TruthyString(o) == o # None /\ o[1] # ""

NoResponse == [status |-> 0, body |-> Undefined]

ErrorResponse(status, error) ==
    [status |-> status, body |-> [kind |-> "json", success |-> FALSE, error |-> error]]

\* what the middleware does with a request: the request afterwards, the
\* response it sent and its calls of next()
validateApiKeyResult(r, setting) ==
    LET isPublic == \E i \in DOMAIN publicEndpoints : StartsWith(r.path, publicEndpoints[i])
        key == IF TruthyString(r.headers) THEN r.headers ELSE r.query
    IN IF isPublic
       THEN [req |-> r, res |-> NoResponse, nextCalls |-> 1]
       ELSE IF ~TruthyString(key)
       THEN [req |-> r, res |-> ErrorResponse(401, "API key required for this endpoint"),
             nextCalls |-> 0]
       ELSE IF ~Includes(ParseValidApiKeys(setting), key[1])
       THEN [req |-> r, res |-> ErrorResponse(403, "Invalid API key"), nextCalls |-> 0]
       ELSE [req |-> [r EXCEPT !.apiKey = key], res |-> NoResponse, nextCalls |-> 1]

validateApiKey ==
    \E path \in Paths, header \in HeaderKeys, query \in QueryKeys :
        LET incoming == [path |-> path, headers |-> header, query |-> query,
                         apiKey |-> None]
            r == validateApiKeyResult(incoming, validApiKeys)
        IN /\ req' = r.req
           /\ res' = r.res
           /\ nextCalls' = r.nextCalls
           /\ lastCall' = [op |-> "validateApiKey", incoming |-> incoming]
           /\ UNCHANGED <<serviceVars, recordVars, validApiKeys, apiKeyVars, browserVars>>

\* VALID_API_KEYS is set differently
Configure ==
    \E setting \in ValidApiKeysSettings :
        /\ setting # validApiKeys
        /\ validApiKeys' = setting
        /\ lastCall' = [op |-> "configure", incoming |-> Undefined]
        /\ UNCHANGED <<serviceVars, recordVars, req, res, nextCalls, apiKeyVars, browserVars>>

(***************************************************************************)
(* validate (Joi middleware factory), with the routeQuery schema           *)
(***************************************************************************)
\* JavaScript values of request data: a type and the value's text
Str(v) == [t |-> "string", v |-> v]
Bool(v) == [t |-> "boolean", v |-> BoolStr(v)]

Digits == {"0", "1", "2", "3", "4", "5", "6", "7", "8", "9"}

\* the first position from i on that holds no digit
RECURSIVE SkipDigits(_, _)
SkipDigits(str, i) ==
    IF i <= Len(str) /\ Ch(str, i) \in Digits THEN SkipDigits(str, i + 1) ELSE i

\* the position after a match of -?\d+\.?\d* at i, or 0 without a match
MatchNumber(str, i) ==
    LET a == IF i <= Len(str) /\ Ch(str, i) = "-" THEN i + 1 ELSE i
        b == SkipDigits(str, a)
        c == IF b <= Len(str) /\ Ch(str, b) = "." THEN b + 1 ELSE b
    IN IF b = a THEN 0 ELSE SkipDigits(str, c)

\* /^-?\d+\.?\d*,-?\d+\.?\d*$/
IsLatLng(str) ==
    LET m == MatchNumber(str, 1)
    IN /\ m # 0
       /\ m <= Len(str)
       /\ Ch(str, m) = ","
       /\ MatchNumber(str, m + 1) = Len(str) + 1

\* the keys of the routeQuery schema, in its order
RouteQueryKeys == << "start", "end", "alternatives", "avoidTolls", "avoidHighways",
                     "vehicleType" >>

VehicleTypes == {"car", "truck", "motorcycle", "bicycle"}

Detail(field, message) == [field |-> field, message |-> message]

\* the error of one key of the data, or none
KeyErrors(data, k) ==
    IF k \in {"start", "end"}
    THEN IF k \notin DOMAIN data THEN << Detail(k, "\"" \o k \o "\" is required") >>
         ELSE IF data[k].t # "string" THEN << Detail(k, "\"" \o k \o "\" must be a string") >>
         ELSE IF ~IsLatLng(data[k].v)
         THEN << Detail(k, (IF k = "start" THEN "Start" ELSE "End")
                             \o " coordinate must be in format \"lat,lng\"") >>
         ELSE <<>>
    ELSE IF k \notin DOMAIN data THEN <<>>
    ELSE IF k = "vehicleType"
    THEN IF data[k].t = "string" /\ data[k].v \in VehicleTypes THEN <<>>
         ELSE << Detail(k, "\"vehicleType\" must be one of [car, truck, motorcycle, bicycle]") >>
    ELSE IF data[k].v \in {"true", "false"} THEN <<>>
         ELSE << Detail(k, "\"" \o k \o "\" must be a boolean") >>

\* the value of one key after conversion and defaults
KeyValue(data, k) ==
    IF k \in {"start", "end"} THEN data[k]
    ELSE IF k = "vehicleType" THEN (IF k \in DOMAIN data THEN data[k] ELSE Str("car"))
    ELSE IF k \in DOMAIN data THEN [t |-> "boolean", v |-> data[k].v]
    ELSE Bool(FALSE)

RECURSIVE AllErrors(_, _)
AllErrors(data, i) ==
    IF i > Len(RouteQueryKeys) THEN <<>>
    ELSE KeyErrors(data, RouteQueryKeys[i]) \o AllErrors(data, i + 1)

\* schemas.routeQuery.validate(data, {abortEarly: false, allowUnknown: false,
\* stripUnknown: true}): every error, or the value with unknown keys
\* stripped, booleans converted and defaults filled in
schemaValidate(data) ==
    LET errors == AllErrors(data, 1)
    IN IF errors # <<>>
       THEN [error |-> errors, value |-> Undefined]
       ELSE [error |-> <<>>,
             value |-> [k \in { RouteQueryKeys[i] : i \in DOMAIN RouteQueryKeys } |->
                           KeyValue(data, k)]]

Sources == {"body", "query", "params", "headers"}

SourceData(r, source) ==
    IF source = "query" THEN r.query
    ELSE IF source = "params" THEN r.params
    ELSE r.body

ValidationFailed(details) ==
    [status |-> 400,
     body |-> [kind |-> "json", success |-> FALSE, error |-> "Validation failed",
               details |-> details]]

\* validate rejecting the request and calling next() all the same
validateResult_NoReturn(r, source) ==
    LET v == schemaValidate(SourceData(r, source))
    IN IF v.error # <<>>
       THEN [req |-> r, res |-> ValidationFailed(v.error), nextCalls |-> 1]
       ELSE [req |-> IF source = "body" THEN [r EXCEPT !.body = v.value]
                     ELSE IF source = "query" THEN [r EXCEPT !.query = v.value]
                     ELSE IF source = "params" THEN [r EXCEPT !.params = v.value]
                     ELSE r,
             res |-> NoResponse, nextCalls |-> 1]

\* what the middleware validate(schemas.routeQuery, source) does with a
\* request
validateResult(r, source) ==
    LET v == schemaValidate(SourceData(r, source))
    IN IF v.error # <<>>
       THEN [req |-> r, res |-> ValidationFailed(v.error), nextCalls |-> 0]
       ELSE [req |-> IF source = "body" THEN [r EXCEPT !.body = v.value]
                     ELSE IF source = "query" THEN [r EXCEPT !.query = v.value]
                     ELSE IF source = "params" THEN [r EXCEPT !.params = v.value]
                     ELSE r,
             res |-> NoResponse, nextCalls |-> 1]

\* the values a key of the request data comes with
GivenValues(k) ==
    IF k = "start" THEN { Str("-1.2,36.8"), Str("westlands") }
    ELSE IF k = "end" THEN { Str("-1.3,36.9") }
    ELSE IF k = "alternatives" THEN { Str("true"), Str("maybe") }
    ELSE { Str("1") }

GivenKeys == {"start", "end", "alternatives", "debug"}

\* the objects a part of a request can be
DataObjects ==
    UNION { { d \in [keys -> UNION { GivenValues(k) : k \in GivenKeys }] :
                \A k \in keys : d[k] \in GivenValues(k) } : keys \in SUBSET GivenKeys }

EmptyObject == [k \in {} |-> Str("")]

SmallObjects == { EmptyObject,
                  [k \in {"start", "end", "debug"} |->
                      IF k = "start" THEN Str("-1.25,36.85")
                      ELSE IF k = "end" THEN Str("-1.3,36.9") ELSE Str("1")] }

validate ==
    \E source \in Sources, body \in SmallObjects, query \in DataObjects :
        LET incoming == [body |-> body, query |-> query, params |-> EmptyObject]
            r == validateResult(incoming, source)
        IN /\ req' = r.req
           /\ res' = r.res
           /\ nextCalls' = r.nextCalls
           /\ lastCall' = [op |-> "validate", source |-> source, incoming |-> incoming]
           /\ UNCHANGED <<serviceVars, recordVars, validApiKeys, apiKeyVars, browserVars>>

(***************************************************************************)
(* ApiKey                                                                  *)
(***************************************************************************)
\* the clock counts days
MaxDay == 3
MaxUsage == 3
MaxNotes == 12

\* keys generateKey can draw (hex strings) and the hash bcrypt gives them
GeneratedKeys == { "a1b2c3d4e5f60718", "0f9e8d7c6b5a4938" }
Hash(key) == "$2a$12$" \o key

Reasons == { "", "abuse" }

\* ApiKey.create: the attributes' defaults, then the beforeCreate hook, which
\* generates hash and prefix when no hash is given and sets the expiry to a
\* year from now when none is given
ApiKeyCreate(given, generated, today) ==
    [key_hash |-> IF given.key_hash = "" THEN Hash(generated) ELSE given.key_hash,
     key_prefix |-> IF given.key_hash = "" THEN SubSeq(generated, 1, 8)
                    ELSE given.key_prefix,
     status |-> "active",
     notes |-> "",
     daily_limit |-> given.daily_limit,
     expires_at |-> IF given.expires_at = None THEN Some(today + 365)
                    ELSE given.expires_at,
     last_used_at |-> None,
     usage_count |-> 0,
     today_usage |-> 0,
     today_reset_at |-> today]

\* toJSON that returns every attribute
toJSON_WithHash(key) ==
    [f \in DOMAIN key \cup {"key_id"} |-> IF f = "key_id" THEN key.key_prefix ELSE key[f]]

\* the attributes without key_hash, and key_id set to the prefix
toJSON(key) ==
    [f \in (DOMAIN key \ {"key_hash"}) \cup {"key_id"} |->
        IF f = "key_id" THEN key.key_prefix ELSE key[f]]

canMakeRequest(key, today) ==
    IF key.status # "active" THEN FALSE
    ELSE IF key.expires_at # None /\ today > key.expires_at[1] THEN FALSE
    ELSE IF TruthyNumber(key.daily_limit) /\ key.today_usage >= key.daily_limit[1]
    THEN FALSE
    ELSE TRUE

\* recordUsage: both counters go up; on a new day today's count restarts at 1
recordUsageResult(key, today) ==
    IF today # key.today_reset_at
    THEN [key EXCEPT !.usage_count = @ + 1, !.today_usage = 1,
                     !.last_used_at = Some(today), !.today_reset_at = today]
    ELSE [key EXCEPT !.usage_count = @ + 1, !.today_usage = @ + 1,
                     !.last_used_at = Some(today)]

\* the notes after suspend(reason) or revoke(reason)
AppendNote(notes, reason) ==
    IF reason # "" THEN (IF notes # "" THEN notes \o "\n" \o reason ELSE reason)
    ELSE notes

ApiKeyStep(key) ==
    /\ apiKey' = key
    /\ UNCHANGED <<serviceVars, lastCall, recordVars, middlewareVars, now, subscription,
                   browserVars>>

create ==
    \E generated \in GeneratedKeys,
       given \in { [key_hash |-> "", key_prefix |-> "", daily_limit |-> None,
                    expires_at |-> None],
                   [key_hash |-> "", key_prefix |-> "", daily_limit |-> Some(2),
                    expires_at |-> Some(2)],
                   [key_hash |-> "$2a$12$imported", key_prefix |-> "imported",
                    daily_limit |-> None, expires_at |-> Some(1)] } :
        /\ apiKey = Undefined
        /\ ApiKeyStep(ApiKeyCreate(given, generated, now))

recordUsage ==
    /\ apiKey # Undefined
    /\ apiKey.usage_count < MaxUsage
    /\ ApiKeyStep(recordUsageResult(apiKey, now))

suspend ==
    \E reason \in Reasons :
        /\ apiKey # Undefined
        /\ Len(apiKey.notes) < MaxNotes
        /\ ApiKeyStep([apiKey EXCEPT !.status = "suspended",
                                     !.notes = AppendNote(@, reason)])

revoke ==
    \E reason \in Reasons :
        /\ apiKey # Undefined
        /\ Len(apiKey.notes) < MaxNotes
        /\ ApiKeyStep([apiKey EXCEPT !.status = "revoked",
                                     !.notes = AppendNote(@, reason)])

reactivate ==
    /\ apiKey # Undefined
    /\ ApiKeyStep([apiKey EXCEPT !.status = "active"])

\* ApiKey.cleanupExpired: an active key past its expiry becomes expired
cleanupExpired ==
    /\ apiKey # Undefined
    /\ apiKey.status = "active"
    /\ apiKey.expires_at # None
    /\ apiKey.expires_at[1] < now
    /\ ApiKeyStep([apiKey EXCEPT !.status = "expired"])

\* ApiKey.resetDailyUsage: a count from a day before today restarts at 0
resetDailyUsage ==
    /\ apiKey # Undefined
    /\ apiKey.today_reset_at < now
    /\ ApiKeyStep([apiKey EXCEPT !.today_usage = 0, !.today_reset_at = now])

\* a day passes
Tick ==
    /\ now < MaxDay
    /\ now' = now + 1
    /\ UNCHANGED <<serviceVars, lastCall, recordVars, middlewareVars, apiKey, subscription,
                   browserVars>>

(***************************************************************************)
(* WarningSubscription                                                     *)
(*                                                                         *)
(* Whether the beforeUpdate hook sees the attribute active as changed is   *)
(* the library's business.  Sequelize 6 keeps a set of changed attributes, *)
(* which an assignment of a new value extends and a successful save        *)
(* empties; Sequelize 5 compares the value with the one loaded or saved    *)
(* last.  The two differ only after a save was rejected; the model takes   *)
(* either answer then.  dirty is the membership of active in the set,      *)
(* saved the value of active saved last.                                   *)
(***************************************************************************)
MaxNotifications == 2

\* what subscribeToWarnings passes on: alert types, threshold, frequency
SubscriptionData ==
    { [alert_types |-> t, threshold |-> h, notification_frequency |-> f] :
        t \in { {"congestion", "incident", "severe"}, {"incident"} },
        h \in { None,
                Some([congestionLevel |-> Some("high"), incidentSeverity |-> None,
                      speed |-> None]),
                Some([congestionLevel |-> None, incidentSeverity |-> None,
                      speed |-> Some(30)]) },
        f \in {"immediate", "hourly", "daily"} }

\* alerts shouldNotify is asked about: the type and the data
Alerts ==
    { [type |-> "congestion", data |-> [level |-> "severe", currentSpeed |-> 12]],
      [type |-> "congestion", data |-> [level |-> "medium", currentSpeed |-> 45]],
      [type |-> "incident", data |-> [severity |-> "high", currentSpeed |-> 0]],
      [type |-> "weather", data |-> [level |-> "low", currentSpeed |-> 20]] }

\* WarningSubscription.create: the defaults of the attributes
SubscriptionCreate(given) ==
    [alert_types |-> given.alert_types,
     threshold |-> given.threshold,
     notification_frequency |-> given.notification_frequency,
     active |-> TRUE,
     last_notification_at |-> None,
     notification_count |-> 0,
     saved |-> TRUE,
     dirty |-> FALSE]

\* the threshold checks of shouldNotify
ThresholdAllows(threshold, alertType, alertData) ==
    IF alertType = "congestion" /\ threshold.congestionLevel # None
    THEN \/ alertData.level = threshold.congestionLevel[1]
         \/ (alertData.level = "severe" /\ threshold.congestionLevel[1] = "high")
    ELSE IF alertType = "incident" /\ threshold.incidentSeverity # None
    THEN \/ alertData.severity = threshold.incidentSeverity[1]
         \/ (alertData.severity = "severe" /\ threshold.incidentSeverity[1] = "high")
    ELSE IF TruthyNumber(threshold.speed) /\ alertData.currentSpeed # 0
    THEN alertData.currentSpeed <= threshold.speed[1]
    ELSE TRUE

\* shouldNotify; the clock counts days, and the least interval is an hour
\* for hourly and a day for daily
shouldNotify(sub, alertType, alertData, today) ==
    IF ~sub.active THEN FALSE
    ELSE IF alertType \notin sub.alert_types THEN FALSE
    ELSE IF /\ sub.notification_frequency # "immediate"
            /\ sub.last_notification_at # None
            /\ 24 * (today - sub.last_notification_at[1])
                  < (IF sub.notification_frequency = "hourly" THEN 1 ELSE 24)
    THEN FALSE
    ELSE IF sub.threshold # None
    THEN ThresholdAllows(sub.threshold[1], alertType, alertData)
    ELSE TRUE

\* this.active = value
SetActive(sub, value) ==
    [sub EXCEPT !.active = value, !.dirty = @ \/ value # sub.active]

\* the answers subscription.changed('active') can give
ChangedActive(sub) == { sub.dirty, sub.active # sub.saved }

\* the hook that resets nothing
SubscriptionBeforeUpdate_NoReset(sub, changed) == sub

\* the beforeUpdate hook
SubscriptionBeforeUpdate(sub, changed) ==
    IF changed /\ sub.active
    THEN [sub EXCEPT !.notification_count = 0, !.last_notification_at = None]
    ELSE sub

\* save: the hook, then the UPDATE, which the database may reject
SubscriptionSave(op, sub) ==
    \E changed \in ChangedActive(sub), ok \in BOOLEAN :
        LET hooked == SubscriptionBeforeUpdate(sub, changed)
        IN /\ subscription' = IF ok THEN [hooked EXCEPT !.saved = hooked.active,
                                                         !.dirty = FALSE]
                                    ELSE hooked
           /\ lastCall' = [op |-> op, caller |-> op, before |-> subscription,
                           outcome |-> IF ok THEN "return" ELSE "throw"]
           /\ UNCHANGED <<serviceVars, recordVars, middlewareVars, apiKey, now, browserVars>>

subscribeToWarnings ==
    \E given \in SubscriptionData :
        /\ subscription = Undefined
        /\ subscription' = SubscriptionCreate(given)
        /\ lastCall' = [op |-> "subscribeToWarnings", caller |-> "subscribeToWarnings",
                        outcome |-> "return"]
        /\ UNCHANGED <<serviceVars, recordVars, middlewareVars, apiKey, now, browserVars>>

updateNotificationCount ==
    /\ subscription # Undefined
    /\ subscription.notification_count < MaxNotifications
    /\ SubscriptionSave("updateNotificationCount",
                        [subscription EXCEPT !.notification_count = @ + 1,
                                             !.last_notification_at = Some(now)])

deactivate ==
    /\ subscription # Undefined
    /\ SubscriptionSave("deactivate", SetActive(subscription, FALSE))

activate ==
    /\ subscription # Undefined
    /\ SubscriptionSave("activate", SetActive(subscription, TRUE))

(***************************************************************************)
(* WarningSystem (browser)                                                 *)
(*                                                                         *)
(* The browser runs one callback at a time.  An async function runs until  *)
(* its next await; a continuation that waits for a promise already settled *)
(* is a microtask, and the microtasks are run before the next timer, click *)
(* or network callback.  processWarnings awaits triggerWarning, which has  *)
(* no await of its own, so a call that has begun is resumed before any     *)
(* other callback starts: running holds the call between two resumptions.  *)
(***************************************************************************)
Idle == running = Undefined

alertLevels == [CRITICAL |-> [priority |-> 1, sound |-> "critical"],
                HIGH     |-> [priority |-> 2, sound |-> "high"],
                MEDIUM   |-> [priority |-> 3, sound |-> "medium"],
                LOW      |-> [priority |-> 4, sound |-> "low"],
                INFO     |-> [priority |-> 5, sound |-> "info"]]

\* slice(0, 10) of updateWarningDisplay
DisplayLimit == 10

\* cleanupOldWarnings keeps the alerts younger than this many minutes
KeepMinutes == 30

\* the browser's clock stops here
MaxClock == 45

\* minutes between two looks at the clock
ClockStep == 15

Min(a, b) == IF a < b THEN a ELSE b

RECURSIVE Sum(_)
Sum(s) == IF s = <<>> THEN 0 ELSE s[1] + Sum(Tail(s))

RECURSIVE Join(_, _)
\* Array.prototype.join
Join(s, sep) ==
    IF s = <<>> THEN ""
    ELSE IF Len(s) = 1 THEN s[1]
    ELSE s[1] \o sep \o Join(Tail(s), sep)

\* how many elements of s satisfy Test
CountIf(s, Test(_)) == Cardinality({ i \in DOMAIN s : Test(s[i]) })

\* n segments of one traffic level and speed
Segments(n, level, speed) ==
    [i \in 1..n |-> [trafficLevel |-> level, currentSpeed |-> speed]]

\* bodies of GET /api/traffic/live as the browser sees them: the age of the
\* timestamp in minutes and the segments; an error body has neither
LiveBodies ==
    { [kind |-> "error"],
      [kind |-> "traffic", age |-> 31, segments |-> <<>>],
      [kind |-> "traffic", age |-> 0, segments |-> Segments(2, "low", 40)],
      [kind |-> "traffic", age |-> 0,
       segments |-> Segments(4, "severe", 4) \o Segments(6, "high", 20)] }

Incident(severity, description, delay) ==
    [severity |-> severity, description |-> description, delayInSeconds |-> delay]

\* bodies of GET /api/traffic/incidents: a list, or an error body
IncidentBodies ==
    { [kind |-> "error"],
      [kind |-> "array", items |-> <<>>],
      [kind |-> "array", items |-> <<Incident("high", "Flooding on Mombasa Road", 0)>>],
      [kind |-> "array", items |-> <<Incident("severe", "Crash on Uhuru Highway", 0),
                                     Incident("high", "Flooding on Mombasa Road", 0)>>],
      [kind |-> "array", items |-> <<Incident("severe", "Crash on Uhuru Highway", 2000)>>
                                   \o [i \in 1..5 |-> Incident("low", "Stalled vehicle", 0)]] }

\* the bodies of a jam, and no incidents
JamBodies == { b \in LiveBodies : b.kind = "traffic" /\ Len(b.segments) > 2 }

NoIncidents == [kind |-> "array", items |-> <<>>]

\* the bodies with at most one incident
FewIncidents == { b \in IncidentBodies : b.kind = "array" => Len(b.items) <= 1 }

Warning(level, title, location, type, t) ==
    [level |-> level, title |-> title, location |-> location, type |-> type,
     timestamp |-> t]

analyzeTrafficFlow(segments, t) ==
    LET IsSevere(s) == s.trafficLevel = "severe"
        IsHigh(s) == s.trafficLevel = "high"
        IsGridlock(s) == s.currentSpeed < 5
        severeCount == CountIf(segments, IsSevere)
        highCount == CountIf(segments, IsHigh)
        speeds == [i \in DOMAIN segments |-> segments[i].currentSpeed]
        \* avgSpeed < 15; the average of no speeds is NaN, below nothing
        lowAverage == Len(speeds) > 0 /\ Sum(speeds) < 15 * Len(speeds)
        gridlockSegments == CountIf(segments, IsGridlock)
    IN (IF severeCount > 3
        THEN <<Warning("CRITICAL", "Severe Traffic Congestion", "Multiple locations",
                       "congestion", t)>>
        ELSE <<>>)
       \o (IF highCount > 5
           THEN <<Warning("HIGH", "High Traffic Volume", "City-wide", "congestion", t)>>
           ELSE <<>>)
       \o (IF lowAverage
           THEN <<Warning("HIGH", "Very Low Average Speed", "Nairobi metropolitan",
                          "speed", t)>>
           ELSE <<>>)
       \o (IF gridlockSegments > 0
           THEN <<Warning("CRITICAL", "Gridlock Risk Detected", "Critical intersections",
                          "gridlock", t)>>
           ELSE <<>>)

analyzeIncidents(incidents, t) ==
    LET IsSerious(i) == i.severity = "high" \/ i.severity = "severe"
        severeIncidents == SelectSeq(incidents, IsSerious)
        totalDelay == Sum([i \in DOMAIN incidents |-> incidents[i].delayInSeconds])
    IN (IF Len(severeIncidents) > 0
        THEN <<Warning("HIGH", "Severe Traffic Incidents",
                       Join([i \in DOMAIN severeIncidents |->
                                severeIncidents[i].description], ", "),
                       "incident", t)>>
        ELSE <<>>)
       \o (IF Len(incidents) > 5
           THEN <<Warning("MEDIUM", "Multiple Traffic Incidents", "City-wide",
                          "incident", t)>>
           ELSE <<>>)
       \o (IF totalDelay > 1800
           THEN <<Warning("MEDIUM", "Significant Traffic Delays", "Affected routes",
                          "delay", t)>>
           ELSE <<>>)

analyzeSystemHealth(age, t) ==
    (IF age > 10
     THEN <<Warning("MEDIUM", "Stale Traffic Data", "System-wide", "system", t)>>
     ELSE <<>>)
    \o (IF age > 30
        THEN <<Warning("HIGH", "Data Connection Issues", "System-wide", "system", t)>>
        ELSE <<>>)

analyzeTrafficData(trafficData, incidents, age, t) ==
    (IF trafficData.kind = "traffic" THEN analyzeTrafficFlow(trafficData.segments, t)
                                     ELSE <<>>)
    \o (IF incidents.kind = "array" /\ Len(incidents.items) > 0
        THEN analyzeIncidents(incidents.items, t)
        ELSE <<>>)
    \o analyzeSystemHealth(age, t)

\* the alert-list element without alerts
NoAlerts == [kind |-> "none", items |-> <<>>]

NoCounts == [CRITICAL |-> 0, HIGH |-> 0, MEDIUM |-> 0, LOW |-> 0]

\* the counts updateWarningIndicators writes into the four count elements
updateWarningIndicators(as) ==
    [level \in {"CRITICAL", "HIGH", "MEDIUM", "LOW"} |->
        Cardinality({ i \in DOMAIN as : as[i].level = level })]

\* the alerts left in the order they were raised
sortedAlerts_Unsorted(as) == as

\* [...alerts].sort by priority; Array.prototype.sort is stable
sortedAlerts(as) ==
    LET OfPriority(p) ==
            LET Test(a) == alertLevels[a.level].priority = p IN SelectSeq(as, Test)
    IN OfPriority(1) \o OfPriority(2) \o OfPriority(3) \o OfPriority(4) \o OfPriority(5)

\* the panel after updateWarningDisplay: without alerts the list shows
\* 'No active warnings' and the method returns before the indicators
updateWarningDisplay(as, cnt) ==
    IF Len(as) = 0
    THEN [list |-> NoAlerts, counts |-> cnt]
    ELSE [list |-> [kind |-> "list",
                    items |-> SubSeq(sortedAlerts(as), 1, Min(DisplayLimit, Len(as)))],
          counts |-> updateWarningIndicators(as)]

\* cleanupOldWarnings keeping the alerts that are exactly 30 minutes old
cleanupOldWarnings_Inclusive(as, t) ==
    LET Young(a) == t - a.timestamp <= KeepMinutes IN SelectSeq(as, Young)

cleanupOldWarnings(as, t) ==
    LET Young(a) == t - a.timestamp < KeepMinutes IN SelectSeq(as, Young)

\* processWarnings keeping every warning
newWarnings_All(as, warnings) == warnings

\* the warnings processWarnings keeps: no alert has their title and location
newWarnings(as, warnings) ==
    LET IsNew(w) == ~\E i \in DOMAIN as :
                        as[i].title = w.title /\ as[i].location = w.location
    IN SelectSeq(warnings, IsNew)

\* this.alerts.push(warning) and triggerWarning(warning): the notification,
\* the sound, the indicators and, for CRITICAL, the overlay.  pending are the
\* predictions processPredictiveWarnings has still to go through, if it is
\* the caller.
PushAndTrigger(caller, before, new, i, pending) ==
    /\ alerts' = Append(alerts, new[i])
    /\ counts' = updateWarningIndicators(Append(alerts, new[i]))
    /\ running' = [kind |-> "processWarnings", caller |-> caller, before |-> before,
                   newWarnings |-> new, next |-> i + 1, pending |-> pending]
    /\ lastCall' = [op |-> "triggerWarning", caller |-> caller, warning |-> new[i],
                    overlay |-> new[i].level = "CRITICAL"]
    /\ UNCHANGED alertList

\* the end of processWarnings: updateWarningDisplay, then cleanupOldWarnings
DisplayAndCleanup(caller, before, new, pending) ==
    LET panel == updateWarningDisplay(alerts, counts)
    IN /\ alertList' = panel.list
       /\ counts' = panel.counts
       /\ alerts' = cleanupOldWarnings(alerts, clock)
       /\ running' = IF pending = <<>> THEN Undefined
                     ELSE [kind |-> "processPredictiveWarnings", pending |-> pending]
       /\ lastCall' = [op |-> "processWarnings", caller |-> caller, before |-> before,
                       newWarnings |-> new]

\* processWarnings up to its first await, or to its end without new warnings
processWarnings(caller, warnings, pending) ==
    LET new == newWarnings(alerts, warnings)
    IN IF new = <<>> THEN DisplayAndCleanup(caller, alerts, new, pending)
                     ELSE PushAndTrigger(caller, alerts, new, 1, pending)

\* processWarnings from one await to the next, or to its end
processWarningsResume ==
    /\ running.kind = "processWarnings"
    /\ IF running.next <= Len(running.newWarnings)
       THEN PushAndTrigger(running.caller, running.before, running.newWarnings,
                           running.next, running.pending)
       ELSE DisplayAndCleanup(running.caller, running.before, running.newWarnings,
                              running.pending)
    /\ UNCHANGED <<clock, dataAge, predictiveVars, routeVars, serviceVars, recordVars,
                   middlewareVars, apiKeyVars>>

\* a callback that ends without touching the warning system
NoWarningStep(op) ==
    /\ lastCall' = [op |-> op, caller |-> op]
    /\ UNCHANGED <<alerts, alertList, counts, running>>

\* TrafficManager.refreshData, every 30 s: updateStatistics sets dataAge when
\* the body has segments, updateIncidentList throws on an error body, and a
\* rejected fetch or a throw ends the callback in its catch
refreshData(fetched, trafficData, incidents) ==
    /\ Idle
    /\ LET age == IF trafficData.kind = "traffic" THEN trafficData.age ELSE dataAge
       IN IF ~fetched
          THEN NoWarningStep("refreshData") /\ UNCHANGED dataAge
          ELSE /\ dataAge' = age
               /\ IF incidents.kind # "array"
                  THEN NoWarningStep("refreshData")
                  ELSE processWarnings("refreshData",
                           analyzeTrafficData(trafficData, incidents, age, clock), <<>>)
    /\ UNCHANGED <<clock, predictiveVars, routeVars, serviceVars, recordVars,
                   middlewareVars, apiKeyVars>>

\* the callback of WarningSystem.startMonitoring, every 60 s
startMonitoring(fetched, trafficData, incidents) ==
    /\ Idle
    /\ IF ~fetched
       THEN NoWarningStep("startMonitoring")
       ELSE processWarnings("startMonitoring",
                analyzeTrafficData(trafficData, incidents, dataAge, clock), <<>>)
    /\ UNCHANGED <<clock, dataAge, predictiveVars, routeVars, serviceVars, recordVars,
                   middlewareVars, apiKeyVars>>

\* the Clear button
clearAllWarnings ==
    /\ Idle
    /\ alerts' = <<>>
    /\ alertList' = updateWarningDisplay(<<>>, counts).list
    /\ counts' = updateWarningDisplay(<<>>, counts).counts
    /\ lastCall' = [op |-> "clearAllWarnings", caller |-> "click"]
    /\ UNCHANGED <<running, clock, dataAge, predictiveVars, routeVars, serviceVars,
                   recordVars, middlewareVars, apiKeyVars>>

\* the Test button: triggerWarning with a warning that is not added to alerts
testWarningSystem ==
    /\ Idle
    /\ counts' = updateWarningIndicators(alerts)
    /\ lastCall' = [op |-> "triggerWarning", caller |-> "testWarningSystem",
                    warning |-> Warning("HIGH", "Test Warning", "Test Location",
                                        "test", clock),
                    overlay |-> FALSE]
    /\ UNCHANGED <<alerts, alertList, running, clock, dataAge, predictiveVars, routeVars,
                   serviceVars, recordVars, middlewareVars, apiKeyVars>>

\* time passes between two callbacks
ClockTick ==
    /\ Idle
    /\ clock + ClockStep <= MaxClock
    /\ clock' = clock + ClockStep
    /\ lastCall' = [op |-> "tick", caller |-> "clock"]
    /\ UNCHANGED <<warningVars, predictiveVars, routeVars, serviceVars, recordVars,
                   middlewareVars, apiKeyVars>>

(***************************************************************************)
(* PredictiveWarningSystem (browser)                                       *)
(*                                                                         *)
(* Numbers that are fractions in the code are kept exact: a confidence in  *)
(* hundredths, a probability as numerator and denominator.                 *)
(***************************************************************************)
\* 7 * 24 * 60 minutes
WeekMinutes == 10080

\* the interval of startDataCollection, in minutes
CollectMinutes == 5

\* updatePredictions needs this many data points
MinimumData == 10

\* data points collected before collection stops
MaxHistory == 11

\* the page is loaded on a Monday at 07:00; day 0 is a Sunday
LoadMinute == 1440 + 7 * 60

\* Date.prototype.getHours and getDay at clock t
Hours(t) == ((LoadMinute + t) \div 60) % 24
Day(t) == ((LoadMinute + t) \div 1440) % 7

\* Math.round of the fraction a / b, for a >= 0 and b > 0
Round(a, b) == (2 * a + b) \div (2 * b)

Abs(x) == IF x < 0 THEN 0 - x ELSE x

calculateAverageSpeed(segments) ==
    IF Len(segments) = 0 THEN 0
    ELSE Round(Sum([i \in DOMAIN segments |-> segments[i].currentSpeed]), Len(segments))

calculateOverallCongestion(segments) ==
    LET Of(level) == Cardinality({ i \in DOMAIN segments : segments[i].trafficLevel = level })
        total == Len(segments)
    IN IF total = 0 THEN "low"
       ELSE IF 10 * Of("severe") > 3 * total THEN "severe"
       ELSE IF 10 * Of("high") > 4 * total THEN "high"
       ELSE IF 10 * Of("medium") > 5 * total THEN "medium"
       ELSE "low"

\* what the predictive system fetches, stage by stage: free roads without
\* incidents, heavy traffic with three incidents, a jam with six
RoadStages ==
    << [traffic |-> [kind |-> "traffic", age |-> 0, segments |-> Segments(2, "low", 40)],
        incidents |-> [kind |-> "array", items |-> <<>>]],
       [traffic |-> [kind |-> "traffic", age |-> 0,
                     segments |-> Segments(6, "high", 20) \o Segments(4, "low", 40)],
        incidents |-> [kind |-> "array",
                       items |-> [i \in 1..3 |-> Incident("low", "Stalled vehicle", 0)]]],
       [traffic |-> [kind |-> "traffic", age |-> 0,
                     segments |-> Segments(4, "severe", 4) \o Segments(6, "high", 20)],
        incidents |-> [kind |-> "array",
                       items |-> <<Incident("severe", "Crash on Uhuru Highway", 2000)>>
                                 \o [i \in 1..5 |-> Incident("low", "Stalled vehicle", 0)]]] >>

\* trafficData.segments || []
SegmentsOf(trafficData) ==
    IF trafficData.kind = "traffic" THEN trafficData.segments ELSE <<>>

DataPoint(trafficData, incidents, t) ==
    [timestamp |-> t,
     incidentCount |-> Len(incidents.items),
     averageSpeed |-> calculateAverageSpeed(SegmentsOf(trafficData)),
     congestionLevel |-> calculateOverallCongestion(SegmentsOf(trafficData)),
     hour |-> Hours(t),
     dayOfWeek |-> Day(t)]

\* storeHistoricalData keeping the points that are exactly 7 days old
storeHistoricalData_Inclusive(history, trafficData, incidents, t) ==
    LET Recent(d) == d.timestamp >= t - WeekMinutes
    IN SelectSeq(Append(history, DataPoint(trafficData, incidents, t)), Recent)

\* the history after storeHistoricalData at clock t
storeHistoricalData(history, trafficData, incidents, t) ==
    LET Recent(d) == d.timestamp > t - WeekMinutes
    IN SelectSeq(Append(history, DataPoint(trafficData, incidents, t)), Recent)

\* slice(-k)
LastOf(s, k) == SubSeq(s, IF Len(s) > k THEN Len(s) - k + 1 ELSE 1, Len(s))

calculateRecentTrend(history) ==
    LET recent == LastOf(history, 6)
        speeds == [i \in DOMAIN recent |-> recent[i].averageSpeed]
        half == Len(speeds) \div 2
        n1 == half
        n2 == Len(speeds) - half
        s1 == Sum(SubSeq(speeds, 1, half))
        s2 == Sum(SubSeq(speeds, half + 1, Len(speeds)))
    IN IF Len(recent) < 3 THEN "stable"
       \* change = (secondAvg - firstAvg) / firstAvg
       ELSE IF s1 = 0 THEN (IF s2 > 0 THEN "improving" ELSE "stable")
       ELSE IF 5 * (s2 * n1 - s1 * n2) < 0 - s1 * n2 THEN "deteriorating"
       ELSE IF 5 * (s2 * n1 - s1 * n2) > s1 * n2 THEN "improving"
       ELSE "stable"

getCurrentConditions(history, t) ==
    LET latest == history[Len(history)]
    IN [timestamp |-> latest.timestamp,
        averageSpeed |-> latest.averageSpeed,
        congestionLevel |-> latest.congestionLevel,
        incidentCount |-> latest.incidentCount,
        hour |-> Hours(t),
        dayOfWeek |-> Day(t),
        recentTrend |-> calculateRecentTrend(history)]

\* the data points of the same day of the week, at most an hour off
similarConditions(currentConditions, targetHour, history) ==
    LET Similar(d) == /\ Abs(d.hour - targetHour) <= 1
                      /\ d.dayOfWeek = currentConditions.dayOfWeek
    IN SelectSeq(history, Similar)

\* Math.min(0.9, similarConditions.length / 20), in hundredths
Confidence(similar) == Min(90, 5 * Len(similar))

CongestionModelPredict(currentConditions, targetHour, history) ==
    LET similar == similarConditions(currentConditions, targetHour, history)
        Of(level) == Cardinality({ i \in DOMAIN similar :
                                     similar[i].congestionLevel = level })
        Most(level) == \A other \in Levels : Of(other) <= Of(level)
    IN IF Len(similar) = 0 THEN [level |-> "medium", confidence |-> 30]
       ELSE [level |-> IF Most("low") THEN "low"
                       ELSE IF Most("medium") THEN "medium"
                       ELSE IF Most("high") THEN "high"
                       ELSE "severe",
             confidence |-> Confidence(similar)]

SpeedModelPredict(currentConditions, targetHour, history) ==
    LET similar == similarConditions(currentConditions, targetHour, history)
        total == Sum([i \in DOMAIN similar |-> similar[i].averageSpeed])
        n == Len(similar)
    IN IF n = 0 THEN [speed |-> currentConditions.averageSpeed, confidence |-> 30]
       ELSE [speed |-> IF currentConditions.recentTrend = "deteriorating"
                       THEN Round(9 * total, 10 * n)
                       ELSE IF currentConditions.recentTrend = "improving"
                       THEN Round(11 * total, 10 * n)
                       ELSE Round(total, n),
             confidence |-> Confidence(similar)]

IsRushHour(hour) == (hour >= 7 /\ hour <= 9) \/ (hour >= 17 /\ hour <= 19)

\* IncidentModel.predict without the last Math.min(0.9, probability)
IncidentModelPredict_Uncapped(currentConditions, targetHour, history) ==
    LET similar == similarConditions(currentConditions, targetHour, history)
        n == Len(similar)
        total == Sum([i \in DOMAIN similar |-> similar[i].incidentCount])
        base == Min(800 * n, 100 * total)
        rush == IF IsRushHour(targetHour) THEN (base * 3) \div 2 ELSE base
        busy == IF currentConditions.incidentCount > 2 THEN (rush * 6) \div 5 ELSE rush
    IN IF n = 0 THEN [probability |-> [num |-> 1, den |-> 10], confidence |-> 30]
       ELSE [probability |-> [num |-> busy, den |-> 1000 * n],
             confidence |-> Confidence(similar)]

\* the probability as num / den
IncidentModelPredict(currentConditions, targetHour, history) ==
    LET similar == similarConditions(currentConditions, targetHour, history)
        n == Len(similar)
        total == Sum([i \in DOMAIN similar |-> similar[i].incidentCount])
        \* Math.min(0.8, avgIncidents * 0.1), over 1000 n
        base == Min(800 * n, 100 * total)
        rush == IF IsRushHour(targetHour) THEN (base * 3) \div 2 ELSE base
        busy == IF currentConditions.incidentCount > 2 THEN (rush * 6) \div 5 ELSE rush
    IN IF n = 0 THEN [probability |-> [num |-> 1, den |-> 10], confidence |-> 30]
       ELSE [probability |-> [num |-> Min(900 * n, busy), den |-> 1000 * n],
             confidence |-> Confidence(similar)]

\* in tenths
mapCongestionToRisk(congestionLevel) ==
    IF congestionLevel = "low" THEN 2
    ELSE IF congestionLevel = "medium" THEN 4
    ELSE IF congestionLevel = "high" THEN 7
    ELSE IF congestionLevel = "severe" THEN 9
    ELSE 3

\* combinedRisk = congestionRisk * 0.7 + incidentRisk * 0.3, compared with
\* 0.8, 0.6 and 0.4 after multiplying by 100 * den
calculateOverallRisk(congestionPred, incidentPred) ==
    LET p == incidentPred.probability
        combined == 7 * mapCongestionToRisk(congestionPred.level) * p.den + 30 * p.num
    IN IF combined > 80 * p.den THEN "CRITICAL"
       ELSE IF combined > 60 * p.den THEN "HIGH"
       ELSE IF combined > 40 * p.den THEN "MEDIUM"
       ELSE "LOW"

identifyRiskFactors(currentConditions, prediction) ==
    (IF currentConditions.hour >= 7 /\ currentConditions.hour <= 9
     THEN <<"Morning rush hour">> ELSE <<>>)
    \o (IF currentConditions.hour >= 17 /\ currentConditions.hour <= 19
        THEN <<"Evening rush hour">> ELSE <<>>)
    \o (IF currentConditions.recentTrend = "deteriorating"
        THEN <<"Deteriorating traffic conditions">> ELSE <<>>)
    \o (IF currentConditions.incidentCount > 2
        THEN <<"Multiple active incidents">> ELSE <<>>)
    \o (IF prediction.confidence < 60
        THEN <<"Low prediction confidence">> ELSE <<>>)
    \o (IF currentConditions.dayOfWeek = 1 \/ currentConditions.dayOfWeek = 5
        THEN <<"High traffic day">> ELSE <<>>)

\* one pass of the loop of generatePredictions
Prediction(currentConditions, minutesAhead, history, t) ==
    LET hour == Hours(t + minutesAhead)
        congestionPrediction == CongestionModelPredict(currentConditions, hour, history)
        speedPrediction == SpeedModelPredict(currentConditions, hour, history)
        incidentProbability == IncidentModelPredict(currentConditions, hour, history)
    IN [timestamp |-> t + minutesAhead,
        minutesAhead |-> minutesAhead,
        congestionLevel |-> congestionPrediction.level,
        confidence |-> congestionPrediction.confidence,
        predictedSpeed |-> speedPrediction.speed,
        incidentProbability |-> incidentProbability.probability,
        riskLevel |-> calculateOverallRisk(congestionPrediction, incidentProbability),
        factors |-> identifyRiskFactors(currentConditions, congestionPrediction)]

RECURSIVE PredictionsFrom(_, _, _, _)
\* for (minutesAhead = m; minutesAhead <= 60; minutesAhead += 15)
PredictionsFrom(minutesAhead, currentConditions, history, t) ==
    IF minutesAhead <= 60
    THEN <<Prediction(currentConditions, minutesAhead, history, t)>>
         \o PredictionsFrom(minutesAhead + 15, currentConditions, history, t)
    ELSE <<>>

\* the loop starting at 30 minutes
generatePredictions_From30(currentConditions, history, t) ==
    PredictionsFrom(30, currentConditions, history, t)

generatePredictions(currentConditions, history, t) ==
    PredictionsFrom(15, currentConditions, history, t)

\* the warning with a title of its own for the predictions of the second
\* half hour
PredictiveWarning_TitlePerHalfHour(prediction, t) ==
    [level |-> IF prediction.riskLevel = "CRITICAL" THEN "HIGH" ELSE "MEDIUM",
     title |-> IF prediction.minutesAhead <= 30 THEN "Predictive Traffic Alert"
               ELSE "Predictive Traffic Alert (later)",
     location |-> "City-wide forecast",
     type |-> "predictive",
     timestamp |-> t,
     message |-> <<prediction.riskLevel, prediction.minutesAhead>>,
     predictionTime |-> prediction.timestamp,
     confidence |-> prediction.confidence]

\* the warning processPredictiveWarnings builds for a prediction
PredictiveWarning(prediction, t) ==
    [level |-> IF prediction.riskLevel = "CRITICAL" THEN "HIGH" ELSE "MEDIUM",
     title |-> "Predictive Traffic Alert",
     location |-> "City-wide forecast",
     type |-> "predictive",
     timestamp |-> t,
     message |-> <<prediction.riskLevel, prediction.minutesAhead>>,
     predictionTime |-> prediction.timestamp,
     confidence |-> prediction.confidence]

highRiskPredictions(ps) ==
    LET HighRisk(q) == q.riskLevel = "CRITICAL" \/ q.riskLevel = "HIGH"
    IN SelectSeq(ps, HighRisk)

\* processPredictiveWarnings from the start of a pass of its loop to the
\* await in it: the warning is built and handed to processWarnings
PredictiveWarningsLoop(pending) ==
    processWarnings("processPredictiveWarnings",
                    <<PredictiveWarning(pending[1], clock)>>, Tail(pending))

processPredictiveWarningsResume ==
    /\ running.kind = "processPredictiveWarnings"
    /\ PredictiveWarningsLoop(running.pending)
    /\ UNCHANGED <<clock, dataAge, predictiveVars, routeVars, serviceVars, recordVars,
                   middlewareVars, apiKeyVars>>

\* updatePredictions on the history h at clock t: nothing below the minimum
\* of data, else the predictions are replaced and processPredictiveWarnings
\* runs to its first await
updatePredictions(op, h, t) ==
    IF Len(h) < MinimumData
    THEN /\ lastCall' = [op |-> op, caller |-> op, generated |-> FALSE]
         /\ UNCHANGED <<predictions, warningVars>>
    ELSE LET ps == generatePredictions(getCurrentConditions(h, t), h, t)
         IN /\ predictions' = ps
            /\ UNCHANGED dataAge
            /\ IF highRiskPredictions(ps) = <<>>
               THEN /\ lastCall' = [op |-> op, caller |-> op, generated |-> TRUE]
                    /\ UNCHANGED <<alerts, alertList, counts, running>>
               ELSE processWarnings("processPredictiveWarnings",
                        <<PredictiveWarning(highRiskPredictions(ps)[1], t)>>,
                        Tail(highRiskPredictions(ps)))

\* the callback of startDataCollection, every 5 minutes: both fetches, then
\* storeHistoricalData and updatePredictions
startDataCollection ==
    /\ Idle
    /\ Len(historicalData) < MaxHistory
    /\ clock' = clock + CollectMinutes
    /\ historicalData' = storeHistoricalData(historicalData, RoadStages[roads].traffic,
                                             RoadStages[roads].incidents, clock')
    /\ updatePredictions("startDataCollection", historicalData', clock')
    /\ UNCHANGED <<roads, routeVars, serviceVars, recordVars, middlewareVars, apiKeyVars>>

\* the callback of setupPredictionEngine, every 15 minutes
setupPredictionEngine ==
    /\ Idle
    /\ updatePredictions("setupPredictionEngine", historicalData, clock)
    /\ UNCHANGED <<clock, historicalData, roads, routeVars, serviceVars, recordVars,
                   middlewareVars, apiKeyVars>>

\* what getPredictionDashboard returns
getPredictionDashboardResult(ps, h) ==
    IF Len(ps) = 0
    THEN [status |-> "Insufficient data for predictions",
          message |-> "Collecting historical data...",
          predictions |-> <<>>]
    ELSE [status |-> "Predictive system active",
          nextPrediction |-> ps[1],
          allPredictions |-> ps,
          dataPoints |-> Len(h)]

getPredictionDashboard ==
    /\ Idle
    /\ lastCall' = [op |-> "getPredictionDashboard", caller |-> "page",
                    value |-> getPredictionDashboardResult(predictions, historicalData),
                    dataPoints |-> Len(historicalData)]
    /\ UNCHANGED <<browserVars, serviceVars, recordVars, middlewareVars, apiKeyVars>>

\* the traffic gets worse
Worsen ==
    /\ Idle
    /\ roads < Len(RoadStages)
    /\ roads' = roads + 1
    /\ lastCall' = [op |-> "roads", caller |-> "roads"]
    /\ UNCHANGED <<clock, warningVars, historicalData, predictions, routeVars, serviceVars,
                   recordVars, middlewareVars, apiKeyVars>>

\* the page collects nothing for a week less two intervals: the machine
\* sleeps, or it is offline and every fetch of startDataCollection is
\* rejected, which ends the callback in its catch
Sleep ==
    /\ Idle
    /\ clock < WeekMinutes - 2 * CollectMinutes
    /\ clock' = clock + WeekMinutes - 2 * CollectMinutes
    /\ lastCall' = [op |-> "sleep", caller |-> "clock"]
    /\ UNCHANGED <<warningVars, predictiveVars, routeVars, serviceVars, recordVars,
                   middlewareVars, apiKeyVars>>

\* data points the models are asked about: at most this many in a history
MaxSimilar == 2

\* the data points of a Monday, in the morning rush hour and at noon
RiskPoints ==
    { [timestamp |-> 0, averageSpeed |-> 0, hour |-> h, dayOfWeek |-> 1,
       incidentCount |-> c, congestionLevel |-> l] :
        h \in {7, 12}, c \in {0, 3, 9}, l \in Levels }

\* this.historicalData.push(dataPoint)
CollectPoint(dataPoint) ==
    /\ Len(historicalData) < MaxSimilar
    /\ historicalData' = Append(historicalData, dataPoint)
    /\ lastCall' = [op |-> "storeHistoricalData", caller |-> "startDataCollection"]
    /\ UNCHANGED <<clock, warningVars, predictions, roads, routeVars, serviceVars,
                   recordVars, middlewareVars, apiKeyVars>>

\* one pass of the loop of generatePredictions as far as the risk level:
\* the congestion model, the incident model and calculateOverallRisk
PredictRisk(targetHour, incidentCount) ==
    LET currentConditions == [dayOfWeek |-> 1, incidentCount |-> incidentCount]
        congestionPrediction ==
            CongestionModelPredict(currentConditions, targetHour, historicalData)
        incidentProbability ==
            IncidentModelPredict(currentConditions, targetHour, historicalData)
    IN /\ lastCall' = [op |-> "calculateOverallRisk", caller |-> "generatePredictions",
                       currentConditions |-> currentConditions,
                       targetHour |-> targetHour,
                       congestionPred |-> congestionPrediction,
                       incidentPred |-> incidentProbability,
                       value |-> calculateOverallRisk(congestionPrediction,
                                                      incidentProbability)]
       /\ UNCHANGED <<browserVars, serviceVars, recordVars, middlewareVars, apiKeyVars>>

(***************************************************************************)
(* Route planner (browser): NairobiTrafficMap.handleMapClick,              *)
(* TrafficManager.calculateRoute and clearRoute, the keyboard shortcuts    *)
(***************************************************************************)
\* route requests in flight at a time
MaxRequests == 2

\* the methods of NairobiTrafficMap
NairobiTrafficMapMethods ==
    { "init", "initializeMap", "loadNairobiData", "addLandmarks", "addRoads",
      "addHotspots", "updateTrafficData", "updateTrafficLayers", "updateIncidents",
      "updateIncidentLayers", "setupEventListeners", "toggleLayer", "handleMapClick",
      "addRouteMarker", "connectWebSocket", "startDataRefresh", "getLandmarkIcon",
      "getRoadColor", "getRoadWeight", "getTrafficColor", "getCongestionColor",
      "getSeverityColor", "showLoading", "updateLastUpdateTime", "fetchNairobiBoundaries",
      "fetchLandmarks", "fetchRoads", "fetchHotspots", "fetchLiveTraffic",
      "fetchIncidents" }

Digit(d) == SubSeq("0123456789", d + 1, d + 1)

RECURSIVE NatToStr(_)
NatToStr(n) == IF n < 10 THEN Digit(n) ELSE NatToStr(n \div 10) \o Digit(n % 10)

RECURSIVE Digits6(_, _)
\* the last k decimal digits of n, with leading zeros
Digits6(n, k) == IF k = 0 THEN "" ELSE Digits6(n \div 10, k - 1) \o Digit(n % 10)

\* Number.prototype.toFixed(6) of x / 10^7: the magnitude is rounded to six
\* decimals, half up, and a negative x keeps its sign
toFixed6(x) ==
    LET n == Round(Abs(x), 10)
    IN (IF x < 0 THEN "-" ELSE "") \o NatToStr(n \div 1000000) \o "."
       \o Digits6(n % 1000000, 6)

\* places the user clicks on, in units of 10^-7 degrees
ClickLatLngs == { [lat |-> 0 - 12863895, lng |-> 368172204],
                  [lat |-> 0 - 13000000, lng |-> 369000005] }

\* `${e.latlng.lat.toFixed(6)}, ${e.latlng.lng.toFixed(6)}`
PointText(latlng) == toFixed6(latlng.lat) \o ", " \o toFixed6(latlng.lng)

\* what the user types into an input
TypedPoints == { "", "-1.2921, 36.8219" }

Marker(latlng) == [kind |-> "marker", latlng |-> latlng]

\* bodies the server answers GET /api/traffic/route with, and whether the
\* status is ok
Route(length, time, delay) ==
    [summary |-> [lengthInMeters |-> length, travelTimeInSeconds |-> time,
                  trafficDelayInSeconds |-> delay]]

RouteAnswers ==
    { [ok |-> TRUE, body |-> [kind |-> "route", routes |-> <<Route(12400, 1500, 300)>>]],
      [ok |-> TRUE, body |-> [kind |-> "route",
                              routes |-> <<Route(12400, 1500, 0), Route(15000, 1400, 0)>>]],
      [ok |-> TRUE, body |-> [kind |-> "empty"]],
      [ok |-> FALSE, body |-> [kind |-> "error"]] }

NoPage == [loading |-> FALSE, popup |-> Undefined, requests |-> <<>>]

RouteCall(op, outcome, notifications, sent) ==
    [op |-> op, caller |-> op, outcome |-> outcome, notifications |-> notifications,
     sent |-> sent]

handleMapClick(latlng) ==
    /\ IF startPoint = ""
       THEN /\ startPoint' = PointText(latlng)
            /\ markers' = [markers EXCEPT !.start = Marker(latlng)]
            /\ UNCHANGED endPoint
       ELSE IF endPoint = ""
       THEN /\ endPoint' = PointText(latlng)
            /\ markers' = [markers EXCEPT !.end = Marker(latlng)]
            /\ UNCHANGED startPoint
       ELSE UNCHANGED <<startPoint, endPoint, markers>>
    /\ lastCall' = RouteCall("handleMapClick", "return", <<>>, <<>>)
    /\ UNCHANGED <<routeLine, page, clock, warningVars, predictiveVars, serviceVars,
                   recordVars, middlewareVars, apiKeyVars>>

\* the user edits one of the two inputs
TypePoint(input, text) ==
    /\ IF input = "start-point" THEN startPoint' = text /\ UNCHANGED endPoint
                                ELSE endPoint' = text /\ UNCHANGED startPoint
    /\ lastCall' = RouteCall("input", "return", <<>>, <<>>)
    /\ UNCHANGED <<markers, routeLine, page, clock, warningVars, predictiveVars,
                   serviceVars, recordVars, middlewareVars, apiKeyVars>>

\* calculateRoute up to the await of fetchRoute: without both points the
\* notification and the end, else the loading indicator and the request
calculateRoute ==
    /\ Len(page.requests) < MaxRequests
    /\ IF startPoint = "" \/ endPoint = ""
       THEN /\ lastCall' = RouteCall("calculateRoute", "return",
                               << <<"Please select both start and end points", "error">> >>,
                               <<>>)
                            @@ [answer |-> [ok |-> FALSE, body |-> [kind |-> "none"]],
                                request |-> [start |-> startPoint, end |-> endPoint,
                                             alternatives |-> TRUE]]
            /\ UNCHANGED page
       ELSE /\ page' = [page EXCEPT !.loading = TRUE,
                                    !.requests = Append(@, [start |-> startPoint,
                                                            end |-> endPoint,
                                                            alternatives |-> TRUE])]
            /\ lastCall' = RouteCall("fetchRoute", "await", <<>>,
                               <<[start |-> startPoint, end |-> endPoint,
                                  alternatives |-> TRUE]>>)
    /\ UNCHANGED <<startPoint, endPoint, markers, routeLine, clock, warningVars,
                   predictiveVars, serviceVars, recordVars, middlewareVars, apiKeyVars>>

\* displayRoute: without routes a notification.  With routes the first
\* statement calls window.trafficMap.clearRoute, which NairobiTrafficMap
\* does not have, and the TypeError ends the method; had it the method, the
\* line of the first route would be drawn and displayRouteInfo would end
\* with a ReferenceError, for it reads routeLine, which is not in its scope.
displayRoute(routeData, line) ==
    IF routeData.kind # "route"
    THEN [outcome |-> "return", routeLine |-> line,
          notifications |-> << <<"No route found", "warning">> >>]
    ELSE IF "clearRoute" \notin NairobiTrafficMapMethods
    THEN [outcome |-> "throw", routeLine |-> line, notifications |-> <<>>]
    ELSE [outcome |-> "throw",
          routeLine |-> [kind |-> "polyline", route |-> routeData.routes[1]],
          notifications |-> <<>>]

\* calculateRoute from the answer to its request to its end: fetchRoute
\* throws on a rejected fetch and on a status that is not ok, the catch
\* shows the notification and finally turns the loading indicator off
calculateRouteSettles(fetched, answer) ==
    /\ page.requests # <<>>
    /\ LET shown == IF fetched /\ answer.ok THEN displayRoute(answer.body, routeLine)
                    ELSE [outcome |-> "throw", routeLine |-> routeLine,
                          notifications |-> <<>>]
       IN /\ routeLine' = shown.routeLine
          /\ lastCall' = RouteCall("calculateRoute", "return",
                             IF shown.outcome = "throw"
                             THEN << <<"Failed to calculate route", "error">> >>
                             ELSE shown.notifications,
                             <<>>)
                          @@ [answer |-> IF fetched THEN answer
                                         ELSE [ok |-> FALSE, body |-> [kind |-> "rejected"]],
                              request |-> page.requests[1]]
    /\ page' = [page EXCEPT !.loading = FALSE, !.requests = Tail(@)]
    /\ UNCHANGED <<startPoint, endPoint, markers, clock, warningVars,
                   predictiveVars, serviceVars, recordVars, middlewareVars, apiKeyVars>>

\* clearRoute leaving the texts of the inputs
clearRoute_KeepInputs ==
    /\ routeLine' = Undefined
    /\ markers' = [start |-> Undefined, end |-> Undefined]
    /\ UNCHANGED <<startPoint, endPoint>>

\* TrafficManager.clearRoute
clearRoute ==
    /\ routeLine' = Undefined
    /\ markers' = [start |-> Undefined, end |-> Undefined]
    /\ startPoint' = ""
    /\ endPoint' = ""

\* the keydown listener of UIManager: Escape clears the route; the
\* shortcuts with Ctrl or Meta refresh data and toggle layers
keydown(key, ctrlKey) ==
    /\ IF key = "Escape" THEN clearRoute
                         ELSE UNCHANGED <<routeLine, markers, startPoint, endPoint>>
    /\ lastCall' = RouteCall("keydown", "return", <<>>, <<>>) @@ [key |-> key]
    /\ UNCHANGED <<page, clock, warningVars, predictiveVars, serviceVars, recordVars,
                   middlewareVars, apiKeyVars>>

\* route and live-traffic requests
NextCache ==
    \/ \E a \in RouteArgs : getRouteInfo(a[1], a[2], a[3])
    \/ \E bounds \in BoundsArgs : getLiveTrafficData(bounds)
    \/ Expire
    \/ TomTomOutage
    \/ DatabaseOutage

\* incident requests
NextIncidents ==
    \/ getTrafficIncidents
    \/ reportIncident
    \/ resolve
    \/ Expire
    \/ TomTomOutage
    \/ DatabaseOutage

\* live-traffic and incident requests
NextService ==
    \/ \E bounds \in BoundsArgs : getLiveTrafficData(bounds)
    \/ getTrafficIncidents
    \/ reportIncident
    \/ Expire
    \/ TomTomOutage
    \/ DatabaseOutage

\* the TrafficData model
NextTrafficData == TrafficDataCreate

\* the API-key middleware
NextApiKeyMiddleware ==
    \/ validateApiKey
    \/ Configure

\* the validation middleware
NextValidate == validate

\* the warning system over time, with few incidents at a time
NextWarnings ==
    \/ \E fetched \in BOOLEAN, trafficData \in LiveBodies, incidents \in FewIncidents :
          refreshData(fetched, trafficData, incidents)
    \/ \E fetched \in BOOLEAN, trafficData \in LiveBodies, incidents \in FewIncidents :
          startMonitoring(fetched, trafficData, incidents)
    \/ processWarningsResume
    \/ clearAllWarnings
    \/ testWarningSystem
    \/ ClockTick

\* the warning panel with many incidents, within a quarter of an hour
NextWarningPanel ==
    \/ \E trafficData \in LiveBodies, incidents \in IncidentBodies :
          refreshData(TRUE, trafficData, incidents)
    \/ \E trafficData \in LiveBodies, incidents \in IncidentBodies :
          startMonitoring(TRUE, trafficData, incidents)
    \/ processWarningsResume
    \/ clearAllWarnings

\* the predictive system
NextPredictive ==
    \/ startDataCollection
    \/ setupPredictionEngine
    \/ processWarningsResume
    \/ processPredictiveWarningsResume
    \/ getPredictionDashboard
    \/ Worsen
    \/ Sleep

\* the three callers of processWarnings on one page, with the roads jammed
\* whenever TrafficManager and WarningSystem ask
NextAlerts ==
    \/ \E trafficData \in JamBodies : refreshData(TRUE, trafficData, NoIncidents)
    \/ \E trafficData \in JamBodies : startMonitoring(TRUE, trafficData, NoIncidents)
    \/ startDataCollection
    \/ setupPredictionEngine
    \/ processWarningsResume
    \/ processPredictiveWarningsResume
    \/ Worsen

\* the risk level of a prediction
NextRisk ==
    \/ \E dataPoint \in RiskPoints : CollectPoint(dataPoint)
    \/ \E targetHour \in {8, 12}, incidentCount \in {0, 3} :
          PredictRisk(targetHour, incidentCount)

\* the route planner
NextRoute ==
    \/ \E latlng \in ClickLatLngs : handleMapClick(latlng)
    \/ \E input \in {"start-point", "end-point"}, text \in TypedPoints :
          TypePoint(input, text)
    \/ calculateRoute
    \/ \E fetched \in BOOLEAN, answer \in RouteAnswers :
          calculateRouteSettles(fetched, answer)
    \/ \E key \in {"Escape", "Enter"}, ctrlKey \in BOOLEAN : keydown(key, ctrlKey)

\* the ApiKey model
NextApiKey ==
    \/ create
    \/ recordUsage
    \/ suspend
    \/ revoke
    \/ reactivate
    \/ cleanupExpired
    \/ resetDailyUsage
    \/ Tick

\* the WarningSubscription model
NextSubscription ==
    \/ subscribeToWarnings
    \/ updateNotificationCount
    \/ deactivate
    \/ activate
    \/ Tick

(***************************************************************************)
(* Initial states and specifications                                       *)
(***************************************************************************)
\* the service after its constructor: an empty cache, empty tables
ServiceInit ==
    /\ cache = [key \in CacheKeys |-> Undefined]
    /\ apiKeyTomtom \in BOOLEAN
    /\ tomtomUp = TRUE
    /\ dbUp = TRUE
    /\ trafficRows = {}
    /\ incidentRows = [id \in IncidentIds |-> "absent"]
    /\ lastGood = [key \in LiveKeys |-> Undefined]

\* the page after the constructors of NairobiTrafficMap, TrafficManager,
\* WarningSystem and PredictiveWarningSystem
BrowserInit ==
    /\ clock = 0
    /\ alerts = <<>>
    /\ alertList = NoAlerts
    /\ counts = NoCounts
    /\ running = Undefined
    /\ dataAge = 0
    /\ historicalData = <<>>
    /\ predictions = <<>>
    /\ roads = 1
    /\ startPoint = ""
    /\ endPoint = ""
    /\ markers = [start |-> Undefined, end |-> Undefined]
    /\ routeLine = Undefined
    /\ page = NoPage

\* no TrafficData instance, no request handled, no ApiKey instance
Init ==
    /\ ServiceInit
    /\ lastCall = EnvCall("init", "")
    /\ record = Undefined
    /\ validApiKeys = ""
    /\ req = Undefined
    /\ res = NoResponse
    /\ nextCalls = 0
    /\ apiKey = Undefined
    /\ now = 0
    /\ subscription = Undefined
    /\ BrowserInit

SpecCache == Init /\ [][NextCache]_vars

SpecIncidents == Init /\ [][NextIncidents]_vars

SpecService == Init /\ [][NextService]_vars

SpecTrafficData == Init /\ [][NextTrafficData]_vars

SpecApiKeyMiddleware == Init /\ [][NextApiKeyMiddleware]_vars

SpecValidate == Init /\ [][NextValidate]_vars

SpecApiKey == Init /\ [][NextApiKey]_vars

SpecSubscription == Init /\ [][NextSubscription]_vars

\* the page is served by a server whose TomTom key is configured
PageInit == Init /\ apiKeyTomtom

SpecWarnings == PageInit /\ [][NextWarnings]_vars

SpecWarningPanel == PageInit /\ [][NextWarningPanel]_vars

SpecPredictive == PageInit /\ [][NextPredictive]_vars

SpecRoute == PageInit /\ [][NextRoute]_vars

SpecAlerts == PageInit /\ [][NextAlerts]_vars

SpecRisk == PageInit /\ [][NextRisk]_vars

(***************************************************************************)
(* Properties of the service                                               *)
(***************************************************************************)
IsServiceRead(call) == call.op \in {"getRouteInfo", "getLiveTrafficData"}

\* C1: a getRouteInfo or getLiveTrafficData call that finds a value in the
\* cache under its key returns that value, logs a cache hit, makes no TomTom
\* request and does not write the cache.
C1_CacheHitIsReturned ==
    [][(IsServiceRead(lastCall') /\ Truthy(cache[lastCall'.key]))
         => /\ lastCall'.outcome = "return"
            /\ lastCall'.value = cache[lastCall'.key]
            /\ Has(lastCall'.events, "log.cache.hit")
            /\ ~Has(lastCall'.events, "tomtom.request")
            /\ ~lastCall'.fetch.requested
            /\ ~Has(lastCall'.events, "cache.set")
            /\ cache' = cache]_vars

\* a live-traffic call was answered from the cache
C1_Witness ==
    /\ lastCall.op = "getLiveTrafficData"
    /\ Has(lastCall.events, "log.cache.hit")
    /\ lastCall.value = cache[lastCall.key]
    /\ lastCall.value.kind = "traffic"

IsRouteKey(key) ==
    \E a \in RouteArgs :
        key = "route-" \o a[1] \o "-" \o a[2] \o "-" \o (IF a[3] THEN "true" ELSE "false")

\* C2: a getRouteInfo call that misses the cache and gets a response from
\* TomTom returns the response data and leaves it in the cache under
\* route-<start>-<end>-<alternatives>, other entries untouched; the call that
\* follows it immediately with the same arguments is answered from the cache
\* with the same data and without a TomTom request.
C2_RouteMissFillsCache ==
    [][/\ (lastCall'.op = "getRouteInfo" /\ ~Truthy(cache[lastCall'.key])
            /\ lastCall'.fetch.ok)
          => /\ lastCall'.outcome = "return"
             /\ lastCall'.value = lastCall'.fetch.data
             /\ lastCall'.value \in RouteResponses
             /\ IsRouteKey(lastCall'.key)
             /\ cache' = [cache EXCEPT ![lastCall'.key] = lastCall'.fetch.data]
       /\ (lastCall.op = "getRouteInfo" /\ lastCall.fetch.ok
            /\ lastCall'.op = "getRouteInfo" /\ lastCall'.key = lastCall.key)
          => /\ lastCall'.outcome = "return"
             /\ lastCall'.value = lastCall.value
             /\ Has(lastCall'.events, "log.cache.hit")
             /\ ~Has(lastCall'.events, "tomtom.request")]_vars

\* a route call was answered from the cache, which holds a TomTom response
C2_Witness ==
    /\ lastCall.op = "getRouteInfo"
    /\ Has(lastCall.events, "log.cache.hit")
    /\ lastCall.value \in RouteResponses
    /\ cache[lastCall.key] = lastCall.value

\* C3: a getRouteInfo call whose TomTom request fails rejects with the error
\* of the request, leaves the cache as it was and logs the external call as
\* failed; a route call that finds nothing under its key, as the next call
\* with the same arguments does, sends a request to TomTom again.
C3_RouteFailureRejects ==
    [][/\ (lastCall'.op = "getRouteInfo" /\ ~Truthy(cache[lastCall'.key])
            /\ lastCall'.fetch.requested /\ ~lastCall'.fetch.ok)
          => /\ lastCall'.outcome = "throw"
             /\ lastCall'.value = [kind |-> "error", message |-> lastCall'.fetch.error]
             /\ lastCall'.fetch.error \in TomTomErrors
             /\ cache' = cache
             /\ ~Truthy(cache'[lastCall'.key])
             /\ Has(lastCall'.events, "log.api.fail")
             /\ ~Has(lastCall'.events, "log.api.ok")
       /\ (lastCall.op = "getRouteInfo" /\ lastCall.outcome = "throw"
            /\ lastCall.fetch.requested
            /\ lastCall'.op = "getRouteInfo" /\ lastCall'.key = lastCall.key)
          => Has(lastCall'.events, "tomtom.request")
       /\ (lastCall'.op = "getRouteInfo" /\ ~Truthy(cache[lastCall'.key])
            /\ apiKeyTomtom)
          => Has(lastCall'.events, "tomtom.request")]_vars

\* a route call was rejected with the error of its failed TomTom request
C3_Witness ==
    /\ lastCall.op = "getRouteInfo"
    /\ lastCall.outcome = "throw"
    /\ lastCall.fetch.requested
    /\ lastCall.value.message \in TomTomErrors
    /\ ~Truthy(cache[lastCall.key])

Before(events, e1, e2) ==
    \E i, j \in DOMAIN events : i < j /\ events[i] = e1 /\ events[j] = e2

IsIncidentsMiss(c, call) == call.op = "getTrafficIncidents" /\ ~Truthy(c[IncidentsKey])

\* what a getTrafficIncidents call that misses the cache does first, and what
\* it does with the rows the database returns
C4_DatabaseFirst ==
    /\ IsIncidentsMiss(cache, lastCall')
         => /\ lastCall'.events[2] = "db.findActive"
            /\ Has(lastCall'.events, "tomtom.request")
                 => Before(lastCall'.events, "db.findActive", "tomtom.request")
    /\ (IsIncidentsMiss(cache, lastCall') /\ dbUp /\ findActive(incidentRows) # {})
         => /\ lastCall'.value = IncidentList(findActive(incidentRows))
            /\ cache' = [cache EXCEPT ![IncidentsKey] = lastCall'.value]
            /\ incidentRows' = incidentRows
            /\ ~Has(lastCall'.events, "tomtom.request")
            /\ ~lastCall'.fetch.requested
    /\ (IsIncidentsMiss(cache, lastCall') /\ lastCall'.fetch.requested)
         => dbUp /\ findActive(incidentRows) = {}

\* the TomTom result is cached under 'traffic-incidents' and returned
C4_ResultCached ==
    (IsIncidentsMiss(cache, lastCall') /\ lastCall'.fetch.ok)
      => /\ lastCall'.value = lastCall'.fetch.data
         /\ cache' = [cache EXCEPT ![IncidentsKey] = lastCall'.fetch.data]
         /\ Before(lastCall'.events, "tomtom.request", "storeIncidentData")
         /\ Before(lastCall'.events, "storeIncidentData", "cache.set")

\* C4 as stated: on a cache miss getTrafficIncidents queries the database
\* first; active rows are cached and returned without a TomTom request; only
\* with none is TomTom asked, and its result is then in the database, in the
\* cache under 'traffic-incidents' and returned.
C4_Original ==
    [][/\ C4_DatabaseFirst
       /\ C4_ResultCached
       /\ (IsIncidentsMiss(cache, lastCall') /\ lastCall'.fetch.ok)
            => \A id \in lastCall'.value.items : incidentRows'[id] = "active"]_vars

\* C4 amended: as C4, but the TomTom result is handed to storeIncidentData,
\* which inserts all of it as active rows or, when the insert fails, none of
\* it; either way it is then cached under 'traffic-incidents' and returned.
C4_StoreAttempted ==
    [][/\ C4_DatabaseFirst
       /\ C4_ResultCached
       /\ (IsIncidentsMiss(cache, lastCall') /\ lastCall'.fetch.ok)
            => \/ incidentRows' = incidentRows
               \/ incidentRows' = [id \in IncidentIds |->
                                     IF id \in lastCall'.value.items THEN "active"
                                     ELSE incidentRows[id]]]_vars

\* a call fetched an incident from TomTom, stored it, cached it and returned it
C4_Witness ==
    /\ lastCall.op = "getTrafficIncidents"
    /\ lastCall.fetch.ok
    /\ lastCall.value.items = {"t1"}
    /\ incidentRows["t1"] = "active"
    /\ cache[IncidentsKey] = lastCall.value

\* C5 as stated: once traffic data for some bounds has been fetched and
\* cached, a call for the same bounds made while TomTom is failing returns
\* that data and not an empty result.
C5_FallbackIsCachedData ==
    (/\ lastCall.op = "getLiveTrafficData"
     /\ ~tomtomUp
     /\ lastGood[lastCall.key].kind = "traffic")
      => /\ lastCall.value = lastGood[lastCall.key]
         /\ lastCall.value.segments # <<>>

\* C6 as stated: with the database up, a getTrafficIncidents call returns
\* every reported incident that is active and none that is resolved.
C6_ReportedIncidentIsListed ==
    (lastCall.op = "getTrafficIncidents" /\ dbUp)
      => \A id \in UserIncidentIds :
            /\ incidentRows[id] = "active" => id \in lastCall.value.items
            /\ incidentRows[id] = "resolved" => id \notin lastCall.value.items

(***************************************************************************)
(* Properties of the TrafficData model                                     *)
(***************************************************************************)
Severity(level) ==
    IF level = "low" THEN 1 ELSE IF level = "medium" THEN 2
    ELSE IF level = "high" THEN 3 ELSE 4

\* the level the ratio cur / free (free positive) stands for: low above 0.8,
\* medium above 0.5, high above 0.3, severe otherwise
LevelOfRatio(cur, free) ==
    CHOOSE level \in Levels :
        /\ level = "low" <=> 10 * cur > 8 * free
        /\ level = "medium" <=> (10 * cur > 5 * free /\ 10 * cur <= 8 * free)
        /\ level = "high" <=> (10 * cur > 3 * free /\ 10 * cur <= 5 * free)
        /\ level = "severe" <=> 10 * cur <= 3 * free

\* a record given a current speed, a positive free-flow speed and no level
BothSpeedsNoLevel(r) ==
    /\ r # Undefined
    /\ r.given.current_speed # None
    /\ r.given.free_flow_speed # None
    /\ r.given.free_flow_speed # Some(0)
    /\ r.given.congestion_level = None

\* C7 as stated: calculateTrafficLevel gives the level of the ratio, a higher
\* current speed never gives a more severe level, and a record created with
\* both speeds and no level gets from beforeCreate the level
\* calculateTrafficLevel gives for its speeds.
C7_HookAgreesWithService ==
    BothSpeedsNoLevel(record)
      => LET cur == record.given.current_speed[1]
             free == record.given.free_flow_speed[1]
         IN /\ calculateTrafficLevel(cur, free) \in Levels
            /\ calculateTrafficLevel(cur, free) = LevelOfRatio(cur, free)
            /\ \A faster \in cur..MaxSpeed :
                  Severity(calculateTrafficLevel(faster, free))
                     <= Severity(calculateTrafficLevel(cur, free))
            /\ record.created.congestion_level = Some(calculateTrafficLevel(cur, free))

(***************************************************************************)
(* Properties of the API-key middleware                                    *)
(***************************************************************************)
\* the endpoints open to everyone: the five public API endpoints and the
\* root page
IsPublicPath(path) ==
    \/ path = "/"
    \/ \E i \in 1..5 : StartsWith(path, publicEndpoints[i])

\* C8 as stated: a request to a path that is not public is answered 401
\* without an API key and 403 with a key that is not in VALID_API_KEYS, and
\* next() is not called for it.
C8_ProtectedPathNeedsKey ==
    (lastCall.op = "validateApiKey" /\ ~IsPublicPath(lastCall.incoming.path))
      => LET given == lastCall.incoming
             key == IF TruthyString(given.headers) THEN given.headers ELSE given.query
         IN /\ ~TruthyString(key) => res.status = 401 /\ nextCalls = 0
            /\ (TruthyString(key) /\ ~Includes(ParseValidApiKeys(validApiKeys), key[1]))
                 => res.status = 403 /\ nextCalls = 0

(***************************************************************************)
(* Properties of the ApiKey model                                          *)
(***************************************************************************)
\* C9: whatever was done to an ApiKey since its creation, its JSON form has
\* no key_hash field, has key_id equal to the key prefix, and carries every
\* other attribute as it is.
C9_JsonHidesHash ==
    apiKey # Undefined
      => /\ "key_hash" \in DOMAIN apiKey
         /\ "key_hash" \notin DOMAIN toJSON(apiKey)
         /\ toJSON(apiKey).key_id = apiKey.key_prefix
         /\ \A f \in DOMAIN apiKey \ {"key_hash"} : toJSON(apiKey)[f] = apiKey[f]

\* a generated key that was used, suspended with a reason and reactivated
C9_Witness ==
    /\ apiKey # Undefined
    /\ apiKey.key_hash \in { Hash(k) : k \in GeneratedKeys }
    /\ apiKey.usage_count > 0
    /\ apiKey.notes # ""
    /\ apiKey.status = "active"
    /\ toJSON(apiKey).key_id = SubSeq(apiKey.key_hash, 8, 15)

(***************************************************************************)
(* Properties of the validation middleware                                 *)
(***************************************************************************)
NamedSources == {"body", "query", "params"}

\* C10: for a source of body, query or params the middleware does one of two
\* things.  When the data breaks the schema it answers 400 'Validation
\* failed' with one entry per broken field, leaves the request as it came and
\* does not call next(); otherwise it sends nothing, replaces that part of
\* the request, and only that part, by the validated value and calls next()
\* once.
C10_RejectOrReplace ==
    (lastCall.op = "validate" /\ lastCall.source \in NamedSources)
      => LET given == lastCall.incoming
             data == SourceData(given, lastCall.source)
             broken == { k \in {"start", "end", "alternatives"} :
                            KeyErrors(data, k) # <<>> }
             rejected == /\ res.status = 400
                         /\ res.body.error = "Validation failed"
                         /\ Len(res.body.details) = Cardinality(broken)
                         /\ { res.body.details[i].field : i \in DOMAIN res.body.details }
                              = broken
                         /\ req = given
                         /\ nextCalls = 0
             passed == /\ res = NoResponse
                       /\ nextCalls = 1
                       /\ SourceData(req, lastCall.source) = schemaValidate(data).value
                       /\ DOMAIN SourceData(req, lastCall.source)
                            = { RouteQueryKeys[i] : i \in DOMAIN RouteQueryKeys }
                       /\ \A part \in NamedSources \ {lastCall.source} :
                             SourceData(req, part) = SourceData(given, part)
         IN /\ broken # {} => rejected
            /\ broken = {} => passed
            /\ ~(rejected /\ passed)

\* a query with an unknown key and a text boolean passed: the key is gone,
\* the boolean converted, the defaults are there, and next() was called
C10_Witness ==
    /\ lastCall.op = "validate"
    /\ lastCall.source = "query"
    /\ "debug" \in DOMAIN lastCall.incoming.query
    /\ nextCalls = 1
    /\ "debug" \notin DOMAIN req.query
    /\ req.query["alternatives"] = Bool(TRUE)
    /\ req.query["vehicleType"] = Str("car")
    /\ req.query # lastCall.incoming.query

(***************************************************************************)
(* Properties of the warning system                                        *)
(***************************************************************************)
Priority(a) == alertLevels[a.level].priority

InSeq(s, x) == \E i \in DOMAIN s : s[i] = x

\* C11: when processWarnings has updated the warning panel, the list shows
\* at most 10 alerts, all of them alerts of the warning system, as many as
\* there are up to 10, in the order CRITICAL, HIGH, MEDIUM, LOW, INFO, and no
\* alert shown has a lower priority than an alert left out; every alert in
\* alerts has one of the five levels.
C11_DisplayByPriority ==
    [][lastCall'.op = "processWarnings"
        => LET shown == alertList'.items
           IN /\ Len(shown) <= 10
              /\ Len(shown) = Min(10, Len(alerts))
              /\ \A i \in DOMAIN shown : InSeq(alerts, shown[i])
              /\ \A i, j \in DOMAIN shown :
                    i < j => Priority(shown[i]) <= Priority(shown[j])
              /\ \A i \in DOMAIN shown : \A k \in DOMAIN alerts :
                    ~InSeq(shown, alerts[k]) => Priority(shown[i]) <= Priority(alerts[k])
              /\ \A k \in DOMAIN alerts' :
                    alerts'[k].level \in {"CRITICAL", "HIGH", "MEDIUM", "LOW", "INFO"}]_vars

\* the panel shows ten of more than ten alerts, of three levels
C11_Witness ==
    /\ lastCall.op = "processWarnings"
    /\ Len(alerts) > 10
    /\ Len(alertList.items) = 10
    /\ \E i, j, k \in DOMAIN alertList.items :
          /\ alertList.items[i].level = "CRITICAL"
          /\ alertList.items[j].level = "HIGH"
          /\ alertList.items[k].level = "MEDIUM"
    /\ \E k \in DOMAIN alerts : ~InSeq(alertList.items, alerts[k])

(***************************************************************************)
(* Properties of the predictive system                                     *)
(***************************************************************************)
\* four predictions, for 15, 30, 45 and 60 minutes after t
FourAhead(ps, t) ==
    /\ Len(ps) = 4
    /\ \A i \in 1..4 : ps[i].minutesAhead = 15 * i /\ ps[i].timestamp = t + 15 * i

\* C12: the predictions list is at all times empty or four predictions for
\* 15, 30, 45 and 60 minutes ahead, in this order; a step that replaces the
\* list puts there the four predictions for 15 to 60 minutes after the
\* time of the step.
C12_FourPredictions ==
    /\ [](predictions = <<>> \/ FourAhead(predictions, predictions[1].timestamp - 15))
    /\ [][predictions' # predictions => FourAhead(predictions', clock')]_vars

\* predictions were generated from ten data points or more
C12_Witness ==
    /\ Len(historicalData) >= 10
    /\ Len(predictions) = 4
    /\ predictions[1].minutesAhead = 15
    /\ predictions[4].minutesAhead = 60
    /\ predictions[4].timestamp = clock + 60

(***************************************************************************)
(* Properties of the route planner                                         *)
(***************************************************************************)
NoMarkers == [start |-> Undefined, end |-> Undefined]

\* C13: a click on the map with the start input empty writes the place
\* into the start input and puts the start marker there; with the start
\* input filled and the end input empty it does so for the end input and
\* the end marker; with both filled it changes nothing.  Escape leaves both
\* inputs empty and no start marker, end marker or route line, so that the
\* click that follows sets the start point.
C13_ClicksSetWaypoints ==
    [][/\ lastCall'.op = "handleMapClick"
          => /\ startPoint = ""
                => /\ \E l \in ClickLatLngs :
                         startPoint' = PointText(l) /\ markers'.start = Marker(l)
                   /\ startPoint' # ""
                   /\ endPoint' = endPoint /\ markers'.end = markers.end
             /\ (startPoint # "" /\ endPoint = "")
                => /\ \E l \in ClickLatLngs :
                         endPoint' = PointText(l) /\ markers'.end = Marker(l)
                   /\ endPoint' # ""
                   /\ startPoint' = startPoint /\ markers'.start = markers.start
             /\ (startPoint # "" /\ endPoint # "")
                => /\ startPoint' = startPoint /\ endPoint' = endPoint
                   /\ markers' = markers
             /\ routeLine' = routeLine
       /\ (lastCall'.op = "keydown" /\ lastCall'.key = "Escape")
          => /\ startPoint' = "" /\ endPoint' = ""
             /\ markers' = NoMarkers
             /\ routeLine' = Undefined
       /\ (lastCall.op = "keydown" /\ lastCall.key = "Escape"
            /\ lastCall'.op = "handleMapClick")
          => /\ startPoint' # "" /\ markers'.start # Undefined
             /\ endPoint' = "" /\ markers'.end = Undefined]_vars

\* both points were set by clicks, the end point last
C13_Witness ==
    /\ lastCall.op = "handleMapClick"
    /\ startPoint = "-1.286390, 36.817220"
    /\ endPoint = "-1.300000, 36.900001"
    /\ markers.start # Undefined
    /\ markers.end # Undefined

\* C14: a calculateRoute call that was made with both points set and whose
\* request is answered with at least one route leaves the route line on
\* the map and the route information shown and shows no 'Failed to
\* calculate route'; a call with a point missing shows an error and sends
\* no request; the loading indicator is off when a call ends.
C14_RouteIsDrawn ==
    [][lastCall'.op = "calculateRoute"
        => /\ (/\ lastCall'.request.start # "" /\ lastCall'.request.end # ""
               /\ lastCall'.answer.ok
               /\ lastCall'.answer.body.kind = "route"
               /\ Len(lastCall'.answer.body.routes) >= 1)
              => /\ routeLine' # Undefined
                 /\ page'.popup # Undefined
                 /\ \A i \in DOMAIN lastCall'.notifications :
                       lastCall'.notifications[i][1] # "Failed to calculate route"
           /\ (lastCall'.request.start = "" \/ lastCall'.request.end = "")
              => /\ \E i \in DOMAIN lastCall'.notifications :
                       lastCall'.notifications[i][2] = "error"
                 /\ lastCall'.sent = <<>>
                 /\ page'.requests = page.requests
           /\ page'.requests = <<>> => ~page'.loading]_vars

(***************************************************************************)
(* Properties of the service's error handling                              *)
(***************************************************************************)
\* a getLiveTrafficData or getTrafficIncidents call that went past the cache
\* and did not get its data
LiveFailed(call) == call.op = "getLiveTrafficData" /\ Has(call.events, "log.api.fail")

IncidentsFailed(call) == call.op = "getTrafficIncidents" /\ Has(call.events, "log.api.fail")

C16_NoDuplicateAlerts ==
    \A i, j \in DOMAIN alerts :
        (alerts[i].title = alerts[j].title /\ alerts[i].location = alerts[j].location)
            => i = j

\* the predictive alert and the alerts of a jam are in alerts, and the
\* monitoring callback has just offered the warnings of the jam once more
C16_Witness ==
    /\ lastCall.op = "processWarnings"
    /\ lastCall.caller = "startMonitoring"
    /\ lastCall.newWarnings = <<>>
    /\ \E i, j \in DOMAIN alerts :
          /\ alerts[i].title = "Predictive Traffic Alert"
          /\ alerts[j].title = "Gridlock Risk Detected"

\* C17: when processWarnings returns, no alert in alerts is 30 minutes old or
\* older, and every alert younger than 30 minutes that was in alerts when
\* the call began or that the call added is in alerts.
C17_KeptThirtyMinutes ==
    [][lastCall'.op = "processWarnings"
        => LET offered == lastCall'.before \o lastCall'.newWarnings
           IN /\ \A i \in DOMAIN alerts' : clock' - alerts'[i].timestamp < 30
              /\ \A i \in DOMAIN offered :
                    clock' - offered[i].timestamp < 30 => InSeq(alerts', offered[i])]_vars

\* a call has returned that found an alert of exactly 30 minutes, which is
\* gone, and a younger one, which is kept
C17_Witness ==
    /\ lastCall.op = "processWarnings"
    /\ \E i \in DOMAIN lastCall.before :
          /\ clock - lastCall.before[i].timestamp = 30
          /\ ~InSeq(alerts, lastCall.before[i])
    /\ \E i \in DOMAIN lastCall.before :
          /\ clock - lastCall.before[i].timestamp = 15
          /\ InSeq(alerts, lastCall.before[i])

\* C18: when processWarnings returns, each of the four counts of the panel
\* is the number of alerts of its level in alerts, and the panel shows 'No
\* active warnings' exactly when alerts is empty.
C18_PanelAgrees ==
    [][lastCall'.op = "processWarnings"
        => /\ \A level \in {"CRITICAL", "HIGH", "MEDIUM", "LOW"} :
                 counts'[level]
                    = Cardinality({ i \in DOMAIN alerts' : alerts'[i].level = level })
           /\ (alertList'.kind = "none") <=> (alerts' = <<>>)]_vars

(***************************************************************************)
(* Properties of the predictive system                                     *)
(***************************************************************************)
\* C19: a callback that leaves fewer than 10 data points in historicalData
\* replaces no predictions and adds no alert, and getPredictionDashboard
\* called with fewer than 10 data points reports 'Insufficient data for
\* predictions' and an empty list of predictions.
C19_MinimumData ==
    [][/\ (running = Undefined /\ Len(historicalData') < 10)
          => /\ predictions' = predictions
             /\ alerts' = alerts
             /\ running' = Undefined
       /\ (lastCall'.op = "getPredictionDashboard" /\ Len(historicalData) < 10)
          => /\ lastCall'.value.status = "Insufficient data for predictions"
             /\ lastCall'.value.predictions = <<>>]_vars

\* C20: after storeHistoricalData the last element of historicalData is the
\* data point of this call, no data point is 7 days old or older, and the
\* points before the last are the points of the history that are younger
\* than 7 days, in the order they were collected.
C20_SevenDaysOfHistory ==
    [][historicalData' # historicalData
        => LET n == Len(historicalData')
               Younger(d) == clock' - d.timestamp < 7 * 24 * 60
           IN /\ n >= 1
              /\ historicalData'[n].timestamp = clock'
              /\ \A i \in 1..n : Younger(historicalData'[i])
              /\ SubSeq(historicalData', 1, n - 1) = SelectSeq(historicalData, Younger)]_vars

\* after a week less ten minutes without collecting, a collection has
\* dropped the points of 7 days and more and kept the one of 5 minutes less
C20_Witness ==
    /\ lastCall.op = "startDataCollection"
    /\ Len(historicalData) = 2
    /\ clock - historicalData[1].timestamp = 7 * 24 * 60 - 5
    /\ historicalData[2].timestamp = clock

PredictiveAlerts(as) == LET IsPredictive(a) == a.type = "predictive" IN SelectSeq(as, IsPredictive)

\* C22: processPredictiveWarnings makes one pass, with one processWarnings
\* call, for each prediction of risk HIGH or CRITICAL.  The call adds the
\* warning when no predictive alert is in alerts and adds nothing when one
\* is; a predictive alert has the level HIGH for the risk CRITICAL and
\* MEDIUM for the risk HIGH; alerts never holds more than one predictive
\* alert.
C22_OnePredictiveAlert ==
    /\ [](/\ Len(PredictiveAlerts(alerts)) <= 1
          /\ \A i \in DOMAIN alerts :
                alerts[i].type = "predictive"
                    => /\ alerts[i].title = "Predictive Traffic Alert"
                       /\ alerts[i].location = "City-wide forecast"
                       /\ alerts[i].message[1] \in {"HIGH", "CRITICAL"}
                       /\ alerts[i].level = IF alerts[i].message[1] = "CRITICAL"
                                            THEN "HIGH" ELSE "MEDIUM")
    /\ [][/\ (lastCall'.caller = "processPredictiveWarnings"
                /\ running.kind \in {"undefined", "processPredictiveWarnings"})
              => LET left == IF running = Undefined
                             THEN highRiskPredictions(predictions')
                             ELSE running.pending
                     after == IF running' = Undefined THEN <<>> ELSE running'.pending
                 IN /\ left # <<>>
                    /\ after = Tail(left)
                    /\ IF PredictiveAlerts(alerts) = <<>>
                       THEN /\ Len(PredictiveAlerts(alerts')) = 1
                            /\ PredictiveAlerts(alerts')[1].message
                                  = <<left[1].riskLevel, left[1].minutesAhead>>
                       ELSE lastCall'.op = "processWarnings"
                            /\ lastCall'.newWarnings = <<>>
           /\ (running = Undefined /\ highRiskPredictions(predictions') # <<>>
                /\ predictions' # predictions)
              => lastCall'.caller = "processPredictiveWarnings"]_vars

\* the second of several warnings of one update has been suppressed: the
\* alert of the first is in alerts and passes are left to make
C22_Witness ==
    /\ running.kind = "processPredictiveWarnings"
    /\ running.pending # <<>>
    /\ lastCall.op = "processWarnings"
    /\ lastCall.newWarnings = <<>>
    /\ Len(PredictiveAlerts(alerts)) = 1
    /\ PredictiveAlerts(alerts)[1].timestamp = clock

(***************************************************************************)
(* Properties of the models                                                *)
(***************************************************************************)
\* the subscription's active is as it was saved last
Settled(sub) == sub # Undefined /\ sub.saved = sub.active /\ ~sub.dirty

UsageToday(key, today) == IF key.today_reset_at = today THEN key.today_usage ELSE 0

\* C24: canMakeRequest is true exactly when the status is active, the
\* expiry, if there is one, has not passed, and the usage of today is below
\* the daily limit, if there is one; a suspended or revoked key gets to
\* make requests again by reactivate() only, and a key whose expiry has
\* passed by none of the operations.
C24_UsableExactlyWhen ==
    /\ [](apiKey # Undefined
            => (canMakeRequest(apiKey, now)
                  <=> /\ apiKey.status = "active"
                      /\ (apiKey.expires_at # None => ~(now > apiKey.expires_at[1]))
                      /\ (apiKey.daily_limit # None
                            => UsageToday(apiKey, now) < apiKey.daily_limit[1])))
    /\ [][(apiKey # Undefined /\ apiKey.status \in {"suspended", "revoked"}
              /\ canMakeRequest(apiKey', now'))
            => (now' = now /\ apiKey' = [apiKey EXCEPT !.status = "active"])]_vars
    /\ [][(apiKey # Undefined /\ apiKey.expires_at # None /\ now > apiKey.expires_at[1])
            => ~canMakeRequest(apiKey', now')]_vars

====
